---- MODULE Spec2Model ----
(***************************************************************************)
(* The Loader of the Move VM runtime (language/move-vm/runtime/src/        *)
(* loader.rs): the module cache with its global struct and function        *)
(* tables, the script cache, the three cache locks and the load pipeline   *)
(* (load_module, load_function, load_type, load_script), executed by       *)
(* several threads.  Every thread runs its call as a stack of frames, one  *)
(* frame per Rust function activation; an action is one step of the        *)
(* function on top of a thread's stack.                                    *)
(*                                                                         *)
(* Indices into vectors are 1-based here (Rust: 0-based).                  *)
(***************************************************************************)
EXTENDS Integers, Sequences, FiniteSets, TLC

\* ---------------------------------------------------------------- bounds
\* number of entry-point calls started in one behaviour
MaxCalls == 2

Threads == {"t1", "t2"}
ModuleIds == {"A", "B", "C", "D"}
NoThread == "none"

\* ---------------------------------------------------------------- results
Ok(v) == [ok |-> TRUE, val |-> v]
Err(s) == [ok |-> FALSE, status |-> s]
Unit == "unit"

VerificationStatuses ==
  {"VERIFICATION_ERROR", "MISSING_DEPENDENCY", "CYCLIC_MODULE_DEPENDENCY",
   "CYCLIC_MODULE_FRIENDSHIP",
   "INVALID_FRIEND_DECL_WITH_MODULES_IN_DEPENDENCIES", "LINKING_ERROR",
   "LINKER_ERROR"}
DeserializationStatuses == {"CODE_DESERIALIZATION_ERROR"}

\* logging::expect_no_verification_errors
expect_no_verification_errors(err) ==
  IF err.status \in VerificationStatuses
    THEN Err("UNEXPECTED_VERIFIER_ERROR")
    ELSE IF err.status \in DeserializationStatuses
      THEN Err("UNEXPECTED_DESERIALIZATION_ERROR")
      ELSE err

\* ---------------------------------------------------------------- abilities
PRIMITIVES == {"copy", "drop", "store"}
REFERENCES == {"copy", "drop"}
SIGNER == {"drop"}
VECTOR == {"copy", "drop", "store"}

RECURSIVE IntersectAll(_, _)
IntersectAll(acc, sets) ==
  IF sets = <<>> THEN acc ELSE IntersectAll(acc \cap Head(sets), Tail(sets))

\* a polymorphic_abilities in which a phantom argument restricts like any other
polymorphic_abilities_all_restrict(declared, phantoms, arg_abilities) ==
  IF Len(phantoms) # Len(arg_abilities)
    THEN Err("VERIFIER_INVARIANT_VIOLATION")
    ELSE Ok(IntersectAll(declared, arg_abilities))

\* AbilitySet::polymorphic_abilities: an ability of the declared set is kept
\* only if every non-phantom type argument has it
polymorphic_abilities(declared, phantoms, arg_abilities) ==
  IF Len(phantoms) # Len(arg_abilities)
    THEN Err("VERIFIER_INVARIANT_VIOLATION")
    ELSE Ok(IntersectAll(declared,
              [i \in 1..Len(arg_abilities) |->
                 IF phantoms[i] THEN {"copy", "drop", "store", "key"}
                                ELSE arg_abilities[i]]))

\* ---------------------------------------------------------------- tokens, types
\* SignatureToken
TokU64 == [k |-> "U64"]
TokSigner == [k |-> "Signer"]
TokTyParam(i) == [k |-> "TyParam", i |-> i]
TokVector(t) == [k |-> "Vector", t |-> t]
TokStruct(sh) == [k |-> "Struct", sh |-> sh]
TokStructInst(sh, tys) == [k |-> "StructInst", sh |-> sh, tys |-> tys]

\* Type
TyStruct(idx) == [k |-> "Struct", idx |-> idx]
TyStructInst(idx, tys) == [k |-> "StructInst", idx |-> idx, tys |-> tys]

PrimitiveKinds == {"Bool", "U8", "U64", "U128", "Address"}

\* ---------------------------------------------------------------- compiled modules
\* A CompiledModule as the loader reads it.  deserializes / verifies / links
\* are the outcomes of the external deserializer, bytecode verifier and
\* linking verifier on this binary.
M0(id) ==
  [present |-> TRUE, self_id |-> id, deps |-> <<>>, friends |-> <<>>,
   struct_handles |-> <<>>, struct_defs |-> <<>>,
   function_handles |-> <<>>, function_defs |-> <<>>,
   deserializes |-> TRUE, verifies |-> TRUE, links |-> TRUE]
Missing == [present |-> FALSE]

SH(m, n, ab, tps) == [module |-> m, name |-> n, abilities |-> ab, type_parameters |-> tps]
TP(c, ph) == [constraints |-> c, is_phantom |-> ph]
SD(sh, fields) == [struct_handle |-> sh, fields |-> fields, is_native |-> FALSE]
NativeSD(sh) == [struct_handle |-> sh, fields |-> <<>>, is_native |-> TRUE]
FH(m, n, tps, params) == [module |-> m, name |-> n, type_parameters |-> tps, parameters |-> params]
FD(fh) == [function |-> fh, is_native |-> FALSE]
NativeFD(fh) == [function |-> fh, is_native |-> TRUE]

\* Loader.natives: the native functions the registry resolves, by module
\* and name
Natives == {<<m, "known">> : m \in ModuleIds}

\* a native check that looks at the native functions only
check_native_functions(module) ==
  IF \E i \in DOMAIN module.function_defs :
       /\ module.function_defs[i].is_native
       /\ LET fh == module.function_handles[module.function_defs[i].function]
          IN  <<fh.module, fh.name>> \notin Natives
    THEN Err("MISSING_DEPENDENCY")
    ELSE Ok(Unit)

\* Loader::check_natives: every native function the module declares resolves
\* in the registry, and no struct the module declares is native
check_natives(module) ==
  IF \E i \in DOMAIN module.function_defs :
       /\ module.function_defs[i].is_native
       /\ LET fh == module.function_handles[module.function_defs[i].function]
          IN  <<fh.module, fh.name>> \notin Natives
    THEN Err("MISSING_DEPENDENCY")
  ELSE IF \E i \in DOMAIN module.struct_defs : module.struct_defs[i].is_native
    THEN Err("MISSING_DEPENDENCY")
    ELSE Ok(Unit)

\* ---------------------------------------------------------------- ModuleCache
\* ModuleCache::new
EmptyModuleCache ==
  [id_map |-> <<>>, binaries |-> <<>>, structs |-> <<>>, functions |-> <<>>]

\* ModuleCache::has_module
has_module(cache, id) == id \in DOMAIN cache.id_map

\* ModuleCache::module_at: the shared handle of a cached module is its
\* position in modules.binaries (the Arc stored there)
module_at(cache, id) == cache.id_map[id]

\* ModuleCache::resolve_struct_by_name
resolve_struct_by_name(cache, name, mid) ==
  IF /\ mid \in DOMAIN cache.id_map
     /\ name \in DOMAIN cache.binaries[cache.id_map[mid]].struct_map
    THEN Ok(cache.binaries[cache.id_map[mid]].struct_map[name])
    ELSE Err("TYPE_RESOLUTION_FAILURE")

\* ModuleCache::resolve_function_by_name
resolve_function_by_name(cache, name, mid) ==
  IF /\ mid \in DOMAIN cache.id_map
     /\ name \in DOMAIN cache.binaries[cache.id_map[mid]].function_map
    THEN Ok(cache.binaries[cache.id_map[mid]].function_map[name])
    ELSE Err("FUNCTION_RESOLUTION_FAILURE")

\* a scan that takes the first struct of that name, of whatever module
scan_first_named(structs, idx, mid, name) ==
  LET hits == {i \in 1..idx : structs[i].name = name}
  IN  IF hits = {} THEN Err("TYPE_RESOLUTION_FAILURE")
      ELSE Ok(CHOOSE i \in hits : \A j \in hits : i <= j)

\* the backwards scan of make_type_while_loading's resolver over the struct
\* vector: stop at the first struct of another module
RECURSIVE scan_publishing_structs(_, _, _, _)
scan_publishing_structs(structs, idx, mid, name) ==
  IF idx = 0 THEN Err("TYPE_RESOLUTION_FAILURE")
  ELSE IF structs[idx].module # mid THEN Err("TYPE_RESOLUTION_FAILURE")
  ELSE IF structs[idx].name = name THEN Ok(idx)
  ELSE scan_publishing_structs(structs, idx - 1, mid, name)

\* the resolver closure handed to make_type_internal: by make_type
\* (loading = FALSE) and by make_type_while_loading (loading = TRUE)
struct_resolver(cache, self_id, loading, name, mid) ==
  IF loading /\ mid = self_id
    THEN scan_publishing_structs(cache.structs, Len(cache.structs), mid, name)
    ELSE resolve_struct_by_name(cache, name, mid)

\* ModuleCache::make_type_internal; make_types translates a token list and
\* stops at the first error
RECURSIVE make_type_internal(_, _, _, _), make_types(_, _, _, _)
make_type_internal(cache, view, tok, loading) ==
  CASE tok.k \in PrimitiveKinds \cup {"Signer"} -> Ok([k |-> tok.k])
    [] tok.k = "TyParam" -> Ok([k |-> "TyParam", i |-> tok.i])
    [] tok.k \in {"Vector", "Reference", "MutableReference"} ->
         LET r == make_type_internal(cache, view, tok.t, loading)
         IN  IF r.ok THEN Ok([k |-> tok.k, t |-> r.val]) ELSE r
    [] tok.k = "Struct" ->
         LET sh == view.struct_handles[tok.sh]
             r == struct_resolver(cache, view.self_id, loading, sh.name, sh.module)
         IN  IF r.ok THEN Ok(TyStruct(r.val)) ELSE r
    [] tok.k = "StructInst" ->
         LET tr == make_types(cache, view, tok.tys, loading)
         IN  IF ~tr.ok THEN tr
             ELSE LET sh == view.struct_handles[tok.sh]
                      r == struct_resolver(cache, view.self_id, loading, sh.name, sh.module)
                  IN  IF r.ok THEN Ok(TyStructInst(r.val, tr.val)) ELSE r
make_types(cache, view, toks, loading) ==
  IF toks = <<>> THEN Ok(<<>>)
  ELSE LET r == make_type_internal(cache, view, Head(toks), loading)
       IN  IF ~r.ok THEN r
           ELSE LET rest == make_types(cache, view, Tail(toks), loading)
                IN  IF ~rest.ok THEN rest ELSE Ok(<<r.val>> \o rest.val)

\* ModuleCache::make_type
make_type(cache, view, tok) == make_type_internal(cache, view, tok, FALSE)

\* ModuleCache::make_type_while_loading
make_type_while_loading(cache, module, tok) == make_type_internal(cache, module, tok, TRUE)

\* ModuleCache::make_struct_type: the record is appended with no fields
make_struct_type(module, struct_def, idx) ==
  LET sh == module.struct_handles[struct_def.struct_handle]
  IN  [fields |-> <<>>, abilities |-> sh.abilities,
       type_parameters |-> sh.type_parameters, name |-> sh.name,
       module |-> module.self_id, struct_def |-> idx]

\* ModuleCache::add_module, first loop: one StructType per definition
push_struct_types(cache, module) ==
  [cache EXCEPT !.structs =
     @ \o [i \in 1..Len(module.struct_defs) |->
             make_struct_type(module, module.struct_defs[i], i)]]

\* ModuleCache::load_field_types, first loop: the field types of the
\* definitions from i on, or the first translation error
RECURSIVE translate_fields(_, _, _)
translate_fields(cache, module, i) ==
  IF i > Len(module.struct_defs) THEN Ok(<<>>)
  ELSE LET r == make_types(cache, module, module.struct_defs[i].fields, TRUE)
       IN  IF ~r.ok THEN r
           ELSE LET rest == translate_fields(cache, module, i + 1)
                IN  IF ~rest.ok THEN rest ELSE Ok(<<r.val>> \o rest.val)

\* a second loop that leaves every field list as it was appended
install_nothing(structs, starting_idx, field_types) == structs

\* ModuleCache::load_field_types, second loop: install the field lists from
\* starting_idx on (the struct vector is unchanged on an error)
install_fields(structs, starting_idx, field_types) ==
  [i \in 1..Len(structs) |->
     IF i > starting_idx /\ i <= starting_idx + Len(field_types)
       THEN [structs[i] EXCEPT !.fields = field_types[i - starting_idx]]
       ELSE structs[i]]

load_field_types(cache, module, starting_idx) ==
  LET r == translate_fields(cache, module, 1)
  IN  IF ~r.ok THEN r
      ELSE Ok([cache EXCEPT !.structs = install_fields(@, starting_idx, r.val)])

\* Function::new
Function_new(index, def, module) ==
  LET handle == module.function_handles[def.function]
  IN  [index |-> index, name |-> handle.name, module |-> module.self_id,
       type_parameters |-> handle.type_parameters,
       parameters |-> handle.parameters]

\* ModuleCache::add_module, last loop
push_functions(cache, module) ==
  [cache EXCEPT !.functions =
     @ \o [i \in 1..Len(module.function_defs) |->
             Function_new(i, module.function_defs[i], module)]]

\* Vec::truncate
Truncate(seq, n) == IF n >= Len(seq) THEN seq ELSE SubSeq(seq, 1, n)

\* Module::new, struct handles: the global index of each struct handle, or
\* the first resolution error.  A handle of the publishing module is found
\* by the backwards scan of the struct vector; every such handle has a
\* definition (the bounds checker guarantees it), so the scan cannot run off
\* the front of the vector without a match.
RECURSIVE new_struct_refs(_, _, _)
new_struct_refs(module, cache, i) ==
  IF i > Len(module.struct_handles) THEN Ok(<<>>)
  ELSE LET sh == module.struct_handles[i]
           r == IF sh.module = module.self_id
                  THEN scan_publishing_structs(cache.structs, Len(cache.structs),
                                               sh.module, sh.name)
                  ELSE resolve_struct_by_name(cache, sh.name, sh.module)
       IN  IF ~r.ok THEN r
           ELSE LET rest == new_struct_refs(module, cache, i + 1)
                IN  IF ~rest.ok THEN rest ELSE Ok(<<r.val>> \o rest.val)

\* Module::new, the backwards scan of the function vector
RECURSIVE scan_publishing_functions(_, _, _, _)
scan_publishing_functions(functions, idx, mid, name) ==
  IF idx = 0 THEN Err("FUNCTION_RESOLUTION_FAILURE")
  ELSE IF functions[idx].module # mid THEN Err("FUNCTION_RESOLUTION_FAILURE")
  ELSE IF functions[idx].name = name THEN Ok(idx)
  ELSE scan_publishing_functions(functions, idx - 1, mid, name)

\* Module::new, function handles
RECURSIVE new_function_refs(_, _, _)
new_function_refs(module, cache, i) ==
  IF i > Len(module.function_handles) THEN Ok(<<>>)
  ELSE LET fh == module.function_handles[i]
           r == IF fh.module = module.self_id
                  THEN scan_publishing_functions(cache.functions, Len(cache.functions),
                                                 fh.module, fh.name)
                  ELSE resolve_function_by_name(cache, fh.name, fh.module)
       IN  IF ~r.ok THEN r
           ELSE LET rest == new_function_refs(module, cache, i + 1)
                IN  IF ~rest.ok THEN rest ELSE Ok(<<r.val>> \o rest.val)

\* a struct_map that sends every name to the index of the first definition
new_struct_map_first(module, refs) ==
  LET defs == module.struct_defs
      name(i) == module.struct_handles[defs[i].struct_handle].name
  IN  [n \in {name(i) : i \in 1..Len(defs)} |-> refs[defs[1].struct_handle]]

\* Module::new, struct_map: the name of every struct definition to its
\* global index (a later definition of the same name overwrites an earlier
\* one, as HashMap::insert does)
new_struct_map(module, refs) ==
  LET defs == module.struct_defs
      name(i) == module.struct_handles[defs[i].struct_handle].name
      last(n) == CHOOSE i \in 1..Len(defs) :
                   name(i) = n /\ \A j \in 1..Len(defs) : name(j) = n => j <= i
  IN  [n \in {name(i) : i \in 1..Len(defs)} |-> refs[defs[last(n)].struct_handle]]

\* Module::new, function_map
new_function_map(module, refs) ==
  LET defs == module.function_defs
      name(i) == module.function_handles[defs[i].function].name
      last(n) == CHOOSE i \in 1..Len(defs) :
                   name(i) = n /\ \A j \in 1..Len(defs) : name(j) = n => j <= i
  IN  [n \in {name(i) : i \in 1..Len(defs)} |-> refs[defs[last(n)].function]]

\* Module::new (struct and function handle tables and the two name maps)
Module_new(module, cache) ==
  LET srefs == new_struct_refs(module, cache, 1)
  IN  IF ~srefs.ok THEN srefs
      ELSE LET frefs == new_function_refs(module, cache, 1)
           IN  IF ~frefs.ok THEN frefs
               ELSE Ok([id |-> module.self_id, module |-> module,
                        struct_refs |-> srefs.val, function_refs |-> frefs.val,
                        struct_map |-> new_struct_map(module, srefs.val),
                        function_map |-> new_function_map(module, frefs.val)])

\* an insert that pushes the value and keeps the index a present key has
BinaryCache_insert_keeping_index(cache, key, binary) ==
  [cache EXCEPT !.binaries = Append(@, binary),
                !.id_map = @ @@ (key :> (Len(cache.binaries) + 1))]

\* BinaryCache::get
BinaryCache_get(cache, key) ==
  IF key \in DOMAIN cache.id_map /\ cache.id_map[key] \in DOMAIN cache.binaries
    THEN [some |-> TRUE, val |-> cache.binaries[cache.id_map[key]]]
    ELSE [some |-> FALSE, val |-> Unit]

\* BinaryCache::insert: push, and HashMap::insert of the key with the index
\* of the pushed value
BinaryCache_insert(cache, key, binary) ==
  [cache EXCEPT !.binaries = Append(@, binary),
                !.id_map = (key :> (Len(cache.binaries) + 1)) @@ @]

\* a clean-up that removes the structs and leaves the functions behind
truncate_structs_only(cache, module) ==
  [cache EXCEPT !.structs = Truncate(@, Len(@) - Len(module.struct_defs))]

\* a clean-up that empties the cache, taking the modules cached before with it
rollback_everything(cache, module) ==
  [cache EXCEPT !.structs = <<>>, !.functions = <<>>, !.binaries = <<>>, !.id_map = <<>>]

\* ModuleCache::insert, the Err arm of the match on Module::new: remove the
\* structs and functions add_module pushed
truncate_after_new_failure(cache, module) ==
  [cache EXCEPT !.structs = Truncate(@, Len(@) - Len(module.struct_defs)),
                !.functions = Truncate(@, Len(@) - Len(module.function_defs))]

\* a clean-up that cuts one entry below the starting index
truncate_one_too_many(cache, starting_idx) ==
  [cache EXCEPT !.structs = Truncate(@, IF starting_idx > 0 THEN starting_idx - 1 ELSE 0)]

\* a failed load_field_types that leaves the pushed structs where they are
truncate_nothing(cache, starting_idx) == cache

\* ModuleCache::add_module, the map_err of load_field_types
truncate_after_field_failure(cache, starting_idx) ==
  [cache EXCEPT !.structs = Truncate(@, starting_idx)]

\* ---------------------------------------------------------------- cyclic relations
\* the dependency / friend lookups Loader::verify_module_cyclic_relations
\* hands to the cyclic checker
cyclic_dep_lookup(cache, bundle_verified, id) ==
  IF id \in DOMAIN bundle_verified THEN Ok(bundle_verified[id].deps)
  ELSE IF has_module(cache, id)
    THEN Ok(cache.binaries[cache.id_map[id]].module.deps)
    ELSE Err("MISSING_DEPENDENCY")

\* a friend lookup that defers nothing
cyclic_friend_lookup_undeferred(cache, bundle_verified, bundle_unverified, id) ==
  IF id \in DOMAIN bundle_verified THEN Ok(bundle_verified[id].friends)
  ELSE IF has_module(cache, id)
    THEN Ok(cache.binaries[cache.id_map[id]].module.friends)
    ELSE Err("MISSING_DEPENDENCY")

cyclic_friend_lookup(cache, bundle_verified, bundle_unverified, id) ==
  IF id \in bundle_unverified THEN Ok(<<>>)
  ELSE IF id \in DOMAIN bundle_verified THEN Ok(bundle_verified[id].friends)
  ELSE IF has_module(cache, id)
    THEN Ok(cache.binaries[cache.id_map[id]].module.friends)
    ELSE Err("MISSING_DEPENDENCY")

Range(seq) == {seq[i] : i \in 1..Len(seq)}

\* the modules reachable from a set through a successor function
RECURSIVE Reachable(_, _)
Reachable(set, succ) ==
  LET next == set \cup UNION {succ[x] : x \in set}
  IN  IF next = set THEN set ELSE Reachable(next, succ)

\* cyclic_dependencies::verify_module; dep_fn and friend_fn give for every
\* module id the result of the caller's lookup
cyclic_dependencies_verify_module(module, dep_fn, friend_fn) ==
  LET dsucc == [x \in ModuleIds |-> IF dep_fn[x].ok THEN Range(dep_fn[x].val) ELSE {}]
      fsucc == [x \in ModuleIds |-> IF friend_fn[x].ok THEN Range(friend_fn[x].val) ELSE {}]
      all_deps == Reachable(Range(module.deps), dsucc)
      all_friends == Reachable(Range(module.friends), fsucc)
  IN  IF \E x \in all_deps : ~dep_fn[x].ok THEN Err("MISSING_DEPENDENCY")
      ELSE IF module.self_id \in all_deps THEN Err("CYCLIC_MODULE_DEPENDENCY")
      ELSE IF \E x \in all_friends : ~friend_fn[x].ok THEN Err("MISSING_DEPENDENCY")
      ELSE IF module.self_id \in all_friends THEN Err("CYCLIC_MODULE_FRIENDSHIP")
      ELSE IF all_deps \cap all_friends # {}
        THEN Err("INVALID_FRIEND_DECL_WITH_MODULES_IN_DEPENDENCIES")
        ELSE Ok(Unit)

\* Loader::verify_module_cyclic_relations
verify_module_cyclic_relations(cache, module, bundle_verified, bundle_unverified) ==
  cyclic_dependencies_verify_module(
    module,
    [id \in ModuleIds |-> cyclic_dep_lookup(cache, bundle_verified, id)],
    [id \in ModuleIds |->
       cyclic_friend_lookup(cache, bundle_verified, bundle_unverified, id)])

\* ---------------------------------------------------------------- state
VARIABLES
  scenario,      \* the data store and the calls the threads may make (fixed)
  module_cache,  \* Loader.module_cache: [id_map, binaries, structs, functions]
  scripts,       \* Loader.scripts: [id_map, binaries]
  locks,         \* the RwLocks: for each cache its writer and its readers
  th,            \* per thread: the stack of frames, the value returned by the
                 \* last callee, the visited / friends_discovered sets of the
                 \* load in progress, and the record of its finished calls
  ncalls,        \* number of entry-point calls started
  insert_log,    \* the last ModuleCache::insert that went past the cached check
  linked,        \* module ids whose linking check has passed
  cyclic_passed, \* module ids whose cyclic relation check has passed
  type_cache     \* Loader.type_cache: the struct layouts computed so far

vars == <<scenario, module_cache, scripts, locks, th, ncalls, insert_log,
          linked, cyclic_passed, type_cache>>

LockNames == {"scripts", "module_cache", "type_cache"}

\* RwLock::read / RwLock::write can be granted
ReadOk(l) == locks[l].w = NoThread
WriteOk(l) == locks[l].w = NoThread /\ locks[l].r = {}
LocksHeld(t) == {l \in LockNames : locks[l].w = t \/ t \in locks[l].r}

\* ---------------------------------------------------------------- frames
Frame(fn, pc, id, allow) ==
  [fn |-> fn, pc |-> pc, id |-> id, allow |-> allow, module |-> Missing,
   i |-> 1, list |-> <<>>, acc |-> <<>>, handle |-> 0, starting_idx |-> 0,
   tag |-> [k |-> "U64"], struct_type |-> Missing, func |-> Missing,
   name |-> "-", tags |-> <<>>, script |-> Missing,
   ty |-> [k |-> "U64"], depth |-> 0, ty_args |-> <<>>]

Top(T) == T.stack[Len(T.stack)]
Running(t, fn, pc) ==
  /\ th[t].stack # <<>>
  /\ Top(th[t]).fn = fn
  /\ Top(th[t]).pc = pc

SetTop(T, f) == [T EXCEPT !.stack[Len(T.stack)] = f]
Push(T, f) == [T EXCEPT !.stack = Append(@, f)]

\* return v to the caller; a call whose last frame returns is finished and
\* its result recorded
Return(T, v) ==
  IF Len(T.stack) = 1
    THEN [T EXCEPT !.stack = <<>>, !.ret = v,
                   !.log = Append(@, [call |-> T.call, res |-> v,
                                      fetches |-> T.fetches,
                                      mutations |-> T.mutations,
                                      precached |-> T.precached,
                                      prior |-> T.prior,
                                      script_stage |-> T.script_stage,
                                      layout |-> T.layout,
                                      installed |-> T.installed])]
    ELSE [T EXCEPT !.stack = SubSeq(@, 1, Len(@) - 1), !.ret = v]

\* of a call: the type handed to type_to_type_layout, the type cache it met
\* and the cache keys whose field layouts it computed
NoLayout == [ty |-> [k |-> "U64"], pre |-> {}, computed |-> {}, ran |-> FALSE]

Idle == [stack |-> <<>>, ret |-> Ok(Unit), visited |-> {}, friends_discovered |-> {},
         bundle_verified |-> <<>>, bundle_unverified |-> {},
         call |-> [op |-> "none"], fetches |-> 0, mutations |-> 0,
         precached |-> FALSE, prior |-> {}, script_stage |-> "none",
         layout |-> NoLayout, installed |-> {}, log |-> <<>>]

\* BTreeSet iteration order of module ids
ModuleOrder == <<"A", "B", "C", "D">>
SortedSeq(set) == SelectSeq(ModuleOrder, LAMBDA x : x \in set)

Store == scenario.store

\* ---------------------------------------------------------------- load_module
\* a load_module_internal that loads the closure whether or not the module
\* is cached
LoadModuleInternalUncached(t) ==
  /\ Running(t, "load_module_internal", "check")
  /\ ReadOk("module_cache")
  /\ LET T == th[t]
         f == Top(T)
     IN  th' = [th EXCEPT ![t] =
           Push(SetTop(T, [f EXCEPT !.pc = "loaded"]),
                Frame("load_closure", "start", f.id, TRUE))]
  /\ UNCHANGED <<scenario, type_cache, module_cache, scripts, locks, ncalls, insert_log,
                 linked, cyclic_passed>>

\* Loader::load_module_internal: the cached check
LoadModuleInternal(t) ==
  /\ Running(t, "load_module_internal", "check")
  /\ ReadOk("module_cache")
  /\ LET T == th[t]
         f == Top(T)
     IN  th' = [th EXCEPT ![t] =
           IF has_module(module_cache, f.id)
             THEN Return(T, Ok(module_at(module_cache, f.id)))
             ELSE Push(SetTop(T, [f EXCEPT !.pc = "loaded"]),
                       Frame("load_closure", "start", f.id, TRUE))]
  /\ UNCHANGED <<scenario, type_cache, module_cache, scripts, locks, ncalls, insert_log,
                 linked, cyclic_passed>>

\* Loader::load_module_internal: after the closure is loaded, take the
\* module-cache read lock of verify_module_cyclic_relations
LoadModuleInternalLoaded(t) ==
  /\ Running(t, "load_module_internal", "loaded")
  /\ LET T == th[t]
         f == Top(T)
     IN  IF ~T.ret.ok
           THEN /\ th' = [th EXCEPT ![t] = Return(T, T.ret)]
                /\ UNCHANGED locks
           ELSE /\ ReadOk("module_cache")
                /\ locks' = [locks EXCEPT !["module_cache"].r = @ \cup {t}]
                /\ th' = [th EXCEPT ![t] =
                     SetTop(T, [f EXCEPT !.pc = "cyclic", !.handle = T.ret.val])]
  /\ UNCHANGED <<scenario, type_cache, module_cache, scripts, ncalls, insert_log,
                 linked, cyclic_passed>>

\* a cyclic relation check whose error is returned as the checker gave it
LoadModuleInternalCyclicPlain(t) ==
  /\ Running(t, "load_module_internal", "cyclic")
  /\ LET T == th[t]
         f == Top(T)
         m == module_cache.binaries[f.handle].module
         r == verify_module_cyclic_relations(module_cache, m, T.bundle_verified,
                                             T.bundle_unverified)
     IN  /\ th' = [th EXCEPT ![t] = IF r.ok THEN Return(T, Ok(f.handle)) ELSE Return(T, r)]
         /\ cyclic_passed' = IF r.ok THEN cyclic_passed \cup {f.id} ELSE cyclic_passed
  /\ locks' = [locks EXCEPT !["module_cache"].r = @ \ {t}]
  /\ UNCHANGED <<scenario, type_cache, module_cache, scripts, ncalls, insert_log, linked>>

\* a cyclic relation check that returns with its read lock still held
LoadModuleInternalCyclicHolding(t) ==
  /\ Running(t, "load_module_internal", "cyclic")
  /\ LET T == th[t]
         f == Top(T)
         m == module_cache.binaries[f.handle].module
         r == verify_module_cyclic_relations(module_cache, m, T.bundle_verified,
                                             T.bundle_unverified)
     IN  /\ th' = [th EXCEPT ![t] =
               IF r.ok THEN Return(T, Ok(f.handle))
                       ELSE Return(T, expect_no_verification_errors(r))]
         /\ cyclic_passed' = IF r.ok THEN cyclic_passed \cup {f.id} ELSE cyclic_passed
  /\ UNCHANGED <<scenario, type_cache, module_cache, scripts, locks, ncalls, insert_log,
                 linked>>

\* Loader::verify_module_cyclic_relations as called by load_module_internal:
\* the cyclic checker runs under the read lock; its error is upgraded
LoadModuleInternalCyclic(t) ==
  /\ Running(t, "load_module_internal", "cyclic")
  /\ LET T == th[t]
         f == Top(T)
         m == module_cache.binaries[f.handle].module
         r == verify_module_cyclic_relations(module_cache, m, T.bundle_verified,
                                             T.bundle_unverified)
     IN  /\ th' = [th EXCEPT ![t] =
               IF r.ok THEN Return(T, Ok(f.handle))
                       ELSE Return(T, expect_no_verification_errors(r))]
         /\ cyclic_passed' = IF r.ok THEN cyclic_passed \cup {f.id} ELSE cyclic_passed
  /\ locks' = [locks EXCEPT !["module_cache"].r = @ \ {t}]
  /\ UNCHANGED <<scenario, type_cache, module_cache, scripts, ncalls, insert_log, linked>>

\* Loader::load_and_verify_module_and_dependencies_and_friends: fresh
\* visited and friends_discovered, then the dependency closure
LoadClosure(t) ==
  /\ Running(t, "load_closure", "start")
  /\ LET T == th[t]
         f == Top(T)
     IN  th' = [th EXCEPT ![t] =
           Push([SetTop(T, [f EXCEPT !.pc = "deps_done"])
                   EXCEPT !.visited = {}, !.friends_discovered = {}],
                Frame("load_module_and_deps", "start", f.id, f.allow))]
  /\ UNCHANGED <<scenario, type_cache, module_cache, scripts, locks, ncalls, insert_log,
                 linked, cyclic_passed>>

\* ... then the friends discovered, which must not fail to load
LoadClosureFriends(t) ==
  /\ Running(t, "load_closure", "deps_done")
  /\ LET T == th[t]
         f == Top(T)
     IN  th' = [th EXCEPT ![t] =
           IF ~T.ret.ok THEN Return(T, T.ret)
           ELSE Push(SetTop(T, [f EXCEPT !.pc = "friends_done", !.handle = T.ret.val]),
                     [Frame("load_friends", "filter", f.id, FALSE)
                        EXCEPT !.list = SortedSeq(T.friends_discovered)])]
  /\ UNCHANGED <<scenario, type_cache, module_cache, scripts, locks, ncalls, insert_log,
                 linked, cyclic_passed>>

LoadClosureDone(t) ==
  /\ Running(t, "load_closure", "friends_done")
  /\ LET T == th[t]
         f == Top(T)
     IN  th' = [th EXCEPT ![t] =
           IF ~T.ret.ok THEN Return(T, T.ret) ELSE Return(T, Ok(f.handle))]
  /\ UNCHANGED <<scenario, type_cache, module_cache, scripts, locks, ncalls, insert_log,
                 linked, cyclic_passed>>

\* a visited check whose error is upgraded when loading must not fail
LoadModuleAndDepsUpgrading(t) ==
  /\ Running(t, "load_module_and_deps", "start")
  /\ LET T == th[t]
         f == Top(T)
         cycle == Err("CYCLIC_MODULE_DEPENDENCY")
     IN  th' = [th EXCEPT ![t] =
           IF f.id \in T.visited
             THEN Return(T, IF f.allow THEN cycle ELSE expect_no_verification_errors(cycle))
             ELSE SetTop(T, [f EXCEPT !.pc = "fetch"])]
  /\ UNCHANGED <<scenario, type_cache, module_cache, scripts, locks, ncalls, insert_log,
                 linked, cyclic_passed>>

\* Loader::load_and_verify_module_and_dependencies: the visited check
LoadModuleAndDeps(t) ==
  /\ Running(t, "load_module_and_deps", "start")
  /\ LET T == th[t]
         f == Top(T)
     IN  th' = [th EXCEPT ![t] =
           IF f.id \in T.visited
             THEN Return(T, Err("CYCLIC_MODULE_DEPENDENCY"))
             ELSE SetTop(T, [f EXCEPT !.pc = "fetch"])]
  /\ UNCHANGED <<scenario, type_cache, module_cache, scripts, locks, ncalls, insert_log,
                 linked, cyclic_passed>>

\* the error the data store gives for a module it does not hold
FetchError == Err("LINKER_ERROR")

\* a fetch that prefers the module of that id in the bundle being published
FetchBundleFirst(t) ==
  /\ Running(t, "load_module_and_deps", "fetch")
  /\ LET T == [th[t] EXCEPT !.fetches = @ + 1]
         f == Top(T)
         mine == {i \in DOMAIN T.call.modules : T.call.modules[i].self_id = f.id}
         got == IF mine = {} THEN Store[f.id] ELSE T.call.modules[CHOOSE i \in mine : TRUE]
     IN  th' = [th EXCEPT ![t] =
           IF got.present
             THEN SetTop(T, [f EXCEPT !.pc = "verify", !.module = got])
             ELSE IF f.allow THEN Return(T, FetchError)
                  ELSE Return(T, expect_no_verification_errors(FetchError))]
  /\ UNCHANGED <<scenario, type_cache, module_cache, scripts, locks, ncalls, insert_log,
                 linked, cyclic_passed>>

\* a fetch that hands the error of the data store on whatever the flag
FetchPassingThrough(t) ==
  /\ Running(t, "load_module_and_deps", "fetch")
  /\ LET T == [th[t] EXCEPT !.fetches = @ + 1]
         f == Top(T)
     IN  th' = [th EXCEPT ![t] =
           IF Store[f.id].present
             THEN SetTop(T, [f EXCEPT !.pc = "verify", !.module = Store[f.id]])
             ELSE Return(T, FetchError)]
  /\ UNCHANGED <<scenario, type_cache, module_cache, scripts, locks, ncalls, insert_log,
                 linked, cyclic_passed>>

\* Loader::load_and_verify_module: data_store.load_module
Fetch(t) ==
  /\ Running(t, "load_module_and_deps", "fetch")
  /\ LET T == [th[t] EXCEPT !.fetches = @ + 1]
         f == Top(T)
     IN  th' = [th EXCEPT ![t] =
           IF Store[f.id].present
             THEN SetTop(T, [f EXCEPT !.pc = "verify", !.module = Store[f.id]])
             ELSE IF f.allow THEN Return(T, FetchError)
                  ELSE Return(T, expect_no_verification_errors(FetchError))]
  /\ UNCHANGED <<scenario, type_cache, module_cache, scripts, locks, ncalls, insert_log,
                 linked, cyclic_passed>>

\* Loader::load_and_verify_module after the fetch: deserialize, verify_module,
\* check_natives
load_and_verify_module_checks(bytes) ==
  IF ~bytes.deserializes
    THEN expect_no_verification_errors(Err("CODE_DESERIALIZATION_ERROR"))
  ELSE IF ~bytes.verifies
    THEN expect_no_verification_errors(Err("VERIFICATION_ERROR"))
  ELSE IF ~check_natives(bytes).ok
    THEN expect_no_verification_errors(check_natives(bytes))
  ELSE Ok(bytes)

\* ... then visited, friends_discovered and the call of
\* load_and_verify_dependencies, whose dependencies must not fail to load
VerifyModule(t) ==
  /\ Running(t, "load_module_and_deps", "verify")
  /\ LET T == th[t]
         f == Top(T)
         r == load_and_verify_module_checks(f.module)
     IN  th' = [th EXCEPT ![t] =
           IF ~r.ok THEN Return(T, r)
           ELSE Push([SetTop(T, [f EXCEPT !.pc = "deps_done"])
                        EXCEPT !.visited = @ \cup {f.id},
                               !.friends_discovered = @ \cup Range(f.module.friends)],
                     [Frame("load_deps", "loop", f.id, FALSE)
                        EXCEPT !.module = f.module])]
  /\ UNCHANGED <<scenario, type_cache, module_cache, scripts, locks, ncalls, insert_log,
                 linked, cyclic_passed>>

LoadModuleAndDepsLinked(t) ==
  /\ Running(t, "load_module_and_deps", "deps_done")
  /\ LET T == th[t]
         f == Top(T)
     IN  th' = [th EXCEPT ![t] =
           IF ~T.ret.ok THEN Return(T, T.ret)
           ELSE SetTop(T, [f EXCEPT !.pc = "insert"])]
  /\ UNCHANGED <<scenario, type_cache, module_cache, scripts, locks, ncalls, insert_log,
                 linked, cyclic_passed>>

Unlocked(l) == [locks EXCEPT ![l].w = NoThread]

\* an insert that does not look for the module in the cache first
InsertWithoutRecheck(t) ==
  /\ Running(t, "load_module_and_deps", "insert")
  /\ WriteOk("module_cache")
  /\ LET T == th[t]
         f == Top(T)
     IN  /\ locks' = [locks EXCEPT !["module_cache"].w = t]
         /\ module_cache' = push_struct_types(module_cache, f.module)
         /\ insert_log' = [id |-> f.id, module |-> f.module,
                           pre |-> module_cache, post |-> module_cache,
                           state |-> "pending", res |-> Ok(0)]
         /\ th' = [th EXCEPT ![t] =
              SetTop([T EXCEPT !.mutations = @ + 1],
                     [f EXCEPT !.pc = "insert_fields",
                               !.starting_idx = Len(module_cache.structs)])]
  /\ UNCHANGED <<scenario, type_cache, scripts, ncalls, linked, cyclic_passed>>

\* an insert that, for a cached id, puts the module it was handed in the
\* place of the cached one
InsertOverwriting(t) ==
  /\ Running(t, "load_module_and_deps", "insert")
  /\ WriteOk("module_cache")
  /\ LET T == th[t]
         f == Top(T)
     IN  IF has_module(module_cache, f.id)
           THEN /\ th' = [th EXCEPT ![t] = Return(T, Ok(module_at(module_cache, f.id)))]
                /\ module_cache' = [module_cache EXCEPT
                                      !.binaries[module_cache.id_map[f.id]].module = f.module]
                /\ UNCHANGED <<locks, insert_log>>
           ELSE /\ locks' = [locks EXCEPT !["module_cache"].w = t]
                /\ module_cache' = push_struct_types(module_cache, f.module)
                /\ insert_log' = [id |-> f.id, module |-> f.module,
                                  pre |-> module_cache, post |-> module_cache,
                                  state |-> "pending", res |-> Ok(0)]
                /\ th' = [th EXCEPT ![t] =
                     SetTop([T EXCEPT !.mutations = @ + 1],
                            [f EXCEPT !.pc = "insert_fields",
                                      !.starting_idx = Len(module_cache.structs)])]
  /\ UNCHANGED <<scenario, type_cache, scripts, ncalls, linked, cyclic_passed>>

\* ModuleCache::insert under the write lock taken by
\* load_and_verify_module_and_dependencies: the cached check and the first
\* loop of add_module.  A cached module is returned and the lock dropped.
InsertBegin(t) ==
  /\ Running(t, "load_module_and_deps", "insert")
  /\ WriteOk("module_cache")
  /\ LET T == th[t]
         f == Top(T)
     IN  IF has_module(module_cache, f.id)
           THEN /\ th' = [th EXCEPT ![t] = Return(T, Ok(module_at(module_cache, f.id)))]
                /\ UNCHANGED <<module_cache, locks, insert_log>>
           ELSE /\ locks' = [locks EXCEPT !["module_cache"].w = t]
                /\ module_cache' = push_struct_types(module_cache, f.module)
                /\ insert_log' = [id |-> f.id, module |-> f.module,
                                  pre |-> module_cache, post |-> module_cache,
                                  state |-> "pending", res |-> Ok(0)]
                /\ th' = [th EXCEPT ![t] =
                     SetTop([T EXCEPT !.mutations = @ + 1],
                            [f EXCEPT !.pc = "insert_fields",
                                      !.starting_idx = Len(module_cache.structs)])]
  /\ UNCHANGED <<scenario, type_cache, scripts, ncalls, linked, cyclic_passed>>

\* ModuleCache::add_module: load_field_types, its clean-up on an error, and
\* the functions
InsertFields(t) ==
  /\ Running(t, "load_module_and_deps", "insert_fields")
  /\ LET T == th[t]
         f == Top(T)
         r == load_field_types(module_cache, f.module, f.starting_idx)
     IN  IF r.ok
           THEN /\ module_cache' = push_functions(r.val, f.module)
                /\ th' = [th EXCEPT ![t] = SetTop(T, [f EXCEPT !.pc = "insert_new"])]
                /\ UNCHANGED <<locks, insert_log>>
           ELSE /\ module_cache' = truncate_after_field_failure(module_cache, f.starting_idx)
                /\ locks' = Unlocked("module_cache")
                /\ insert_log' = [insert_log EXCEPT !.post = module_cache',
                                                 !.state = "done", !.res = r]
                /\ th' = [th EXCEPT ![t] = Return(T, r)]
  /\ UNCHANGED <<scenario, type_cache, scripts, ncalls, linked, cyclic_passed>>

\* ModuleCache::insert: Module::new, then modules.insert or the truncation
InsertModule(t) ==
  /\ Running(t, "load_module_and_deps", "insert_new")
  /\ LET T == th[t]
         f == Top(T)
         r == Module_new(f.module, module_cache)
     IN  /\ module_cache' = IF r.ok
                              THEN BinaryCache_insert(module_cache, f.id, r.val)
                              ELSE truncate_after_new_failure(module_cache, f.module)
         /\ insert_log' = [insert_log EXCEPT !.post = module_cache',
                             !.state = "done",
                             !.res = IF r.ok THEN Ok(Len(module_cache'.binaries)) ELSE r]
         /\ th' = [th EXCEPT ![t] =
              Return([T EXCEPT !.installed = IF r.ok THEN @ \cup {f.id} ELSE @],
                     IF r.ok THEN Ok(Len(module_cache'.binaries)) ELSE r)]
  /\ locks' = Unlocked("module_cache")
  /\ UNCHANGED <<scenario, type_cache, scripts, ncalls, linked, cyclic_passed>>

\* a dependency loop that loads every dependency outside the bundle, cached
\* or not
LoadDepsAlwaysRecursing(t) ==
  /\ Running(t, "load_deps", "loop")
  /\ LET T == th[t]
         f == Top(T)
     IN  IF f.i > Len(f.module.deps)
           THEN th' = [th EXCEPT ![t] = SetTop(T, [f EXCEPT !.pc = "link"])]
           ELSE LET dep == f.module.deps[f.i]
                IN  IF dep \in DOMAIN T.bundle_verified
                      THEN th' = [th EXCEPT ![t] = SetTop(T, [f EXCEPT !.i = @ + 1])]
                      ELSE /\ ReadOk("module_cache")
                           /\ th' = [th EXCEPT ![t] =
                                Push(SetTop(T, [f EXCEPT !.pc = "dep_done"]),
                                     Frame("load_module_and_deps", "start",
                                           dep, f.allow))]
  /\ UNCHANGED <<scenario, type_cache, module_cache, scripts, locks, ncalls, insert_log,
                 linked, cyclic_passed>>

\* Loader::load_and_verify_dependencies: one immediate dependency, taken from
\* the verified part of the bundle, from the cache, or loaded
LoadDeps(t) ==
  /\ Running(t, "load_deps", "loop")
  /\ LET T == th[t]
         f == Top(T)
     IN  IF f.i > Len(f.module.deps)
           THEN th' = [th EXCEPT ![t] = SetTop(T, [f EXCEPT !.pc = "link"])]
           ELSE LET dep == f.module.deps[f.i]
                IN  IF dep \in DOMAIN T.bundle_verified
                      THEN th' = [th EXCEPT ![t] = SetTop(T, [f EXCEPT !.i = @ + 1])]
                      ELSE /\ ReadOk("module_cache")
                           /\ th' = [th EXCEPT ![t] =
                                IF has_module(module_cache, dep)
                                  THEN SetTop(T, [f EXCEPT !.i = @ + 1])
                                  ELSE Push(SetTop(T, [f EXCEPT !.pc = "dep_done"]),
                                            Frame("load_module_and_deps", "start",
                                                  dep, f.allow))]
  /\ UNCHANGED <<scenario, type_cache, module_cache, scripts, locks, ncalls, insert_log,
                 linked, cyclic_passed>>

\* a dependency loop that upgrades the error of the recursive load
LoadDepsNextUpgraded(t) ==
  /\ Running(t, "load_deps", "dep_done")
  /\ LET T == th[t]
         f == Top(T)
     IN  th' = [th EXCEPT ![t] =
           IF ~T.ret.ok THEN Return(T, expect_no_verification_errors(T.ret))
           ELSE SetTop(T, [f EXCEPT !.pc = "loop", !.i = @ + 1])]
  /\ UNCHANGED <<scenario, type_cache, module_cache, scripts, locks, ncalls, insert_log,
                 linked, cyclic_passed>>

LoadDepsNext(t) ==
  /\ Running(t, "load_deps", "dep_done")
  /\ LET T == th[t]
         f == Top(T)
     IN  th' = [th EXCEPT ![t] =
           IF ~T.ret.ok THEN Return(T, T.ret)
           ELSE SetTop(T, [f EXCEPT !.pc = "loop", !.i = @ + 1])]
  /\ UNCHANGED <<scenario, type_cache, module_cache, scripts, locks, ncalls, insert_log,
                 linked, cyclic_passed>>

\* dependencies::verify_module, the linking check of a module against its
\* immediate dependencies
dependencies_verify_module(module) ==
  IF module.links THEN Ok(Unit) ELSE Err("LINKING_ERROR")

\* a linking step that drops the verdict of the linking check
LinkDepsUnchecked(t) ==
  /\ Running(t, "load_deps", "link")
  /\ th' = [th EXCEPT ![t] = Return(th[t], Ok(Unit))]
  /\ UNCHANGED <<scenario, type_cache, module_cache, scripts, locks, ncalls, insert_log,
                 linked, cyclic_passed>>

\* Loader::load_and_verify_dependencies: the linking check
LinkDeps(t) ==
  /\ Running(t, "load_deps", "link")
  /\ LET T == th[t]
         f == Top(T)
         result == dependencies_verify_module(f.module)
     IN  /\ th' = [th EXCEPT ![t] =
              Return(T, IF f.allow \/ result.ok THEN result
                        ELSE expect_no_verification_errors(result))]
         /\ linked' = IF result.ok THEN linked \cup {f.module.self_id} ELSE linked
  /\ UNCHANGED <<scenario, type_cache, module_cache, scripts, locks, ncalls, insert_log,
                 cyclic_passed>>

\* a filter that keeps the friends that wait for their turn in the bundle
FilterFriendsNoDeferral(t) ==
  /\ Running(t, "load_friends", "filter")
  /\ ReadOk("module_cache")
  /\ LET T == th[t]
         f == Top(T)
         keep(mid) == /\ ~has_module(module_cache, mid)
                      /\ mid \notin DOMAIN T.bundle_verified
     IN  th' = [th EXCEPT ![t] =
           SetTop(T, [f EXCEPT !.pc = "loop", !.i = 1,
                               !.list = SelectSeq(f.list, keep)])]
  /\ UNCHANGED <<scenario, type_cache, module_cache, scripts, locks, ncalls, insert_log,
                 linked, cyclic_passed>>

\* Loader::load_and_verify_friends: the three filters, under the read lock
FilterFriends(t) ==
  /\ Running(t, "load_friends", "filter")
  /\ ReadOk("module_cache")
  /\ LET T == th[t]
         f == Top(T)
         keep(mid) == /\ ~has_module(module_cache, mid)
                      /\ mid \notin DOMAIN T.bundle_verified
                      /\ mid \notin T.bundle_unverified
     IN  th' = [th EXCEPT ![t] =
           SetTop(T, [f EXCEPT !.pc = "loop", !.i = 1,
                               !.list = SelectSeq(f.list, keep)])]
  /\ UNCHANGED <<scenario, type_cache, module_cache, scripts, locks, ncalls, insert_log,
                 linked, cyclic_passed>>

\* ... and the load of each new friend with its own closure
LoadFriends(t) ==
  /\ Running(t, "load_friends", "loop")
  /\ LET T == th[t]
         f == Top(T)
     IN  th' = [th EXCEPT ![t] =
           IF f.i > Len(f.list) THEN Return(T, Ok(Unit))
           ELSE Push(SetTop(T, [f EXCEPT !.pc = "friend_done"]),
                     Frame("load_closure", "start", f.list[f.i], f.allow))]
  /\ UNCHANGED <<scenario, type_cache, module_cache, scripts, locks, ncalls, insert_log,
                 linked, cyclic_passed>>

LoadFriendsNext(t) ==
  /\ Running(t, "load_friends", "friend_done")
  /\ LET T == th[t]
         f == Top(T)
     IN  th' = [th EXCEPT ![t] =
           IF ~T.ret.ok THEN Return(T, T.ret)
           ELSE SetTop(T, [f EXCEPT !.pc = "loop", !.i = @ + 1])]
  /\ UNCHANGED <<scenario, type_cache, module_cache, scripts, locks, ncalls, insert_log,
                 linked, cyclic_passed>>

\* ---------------------------------------------------------------- type arguments
\* Loader::abilities
RECURSIVE abilities(_, _), abilities_of_all(_, _)
abilities(cache, ty) ==
  CASE ty.k \in PrimitiveKinds -> Ok(PRIMITIVES)
    [] ty.k \in {"Reference", "MutableReference"} -> Ok(REFERENCES)
    [] ty.k = "Signer" -> Ok(SIGNER)
    [] ty.k = "TyParam" -> Err("UNREACHABLE")
    [] ty.k = "Vector" ->
         LET r == abilities(cache, ty.t)
         IN  IF ~r.ok THEN r ELSE polymorphic_abilities(VECTOR, <<FALSE>>, <<r.val>>)
    [] ty.k = "Struct" -> Ok(cache.structs[ty.idx].abilities)
    [] ty.k = "StructInst" ->
         LET struct_type == cache.structs[ty.idx]
             phantoms == [i \in 1..Len(struct_type.type_parameters) |->
                            struct_type.type_parameters[i].is_phantom]
             args == abilities_of_all(cache, ty.tys)
         IN  IF ~args.ok THEN args
             ELSE polymorphic_abilities(struct_type.abilities, phantoms, args.val)
abilities_of_all(cache, tys) ==
  IF tys = <<>> THEN Ok(<<>>)
  ELSE LET r == abilities(cache, Head(tys))
       IN  IF ~r.ok THEN r
           ELSE LET rest == abilities_of_all(cache, Tail(tys))
                IN  IF ~rest.ok THEN rest ELSE Ok(<<r.val>> \o rest.val)

\* every struct index inside the type is an index of the struct vector
RECURSIVE ValidIndices(_, _)
ValidIndices(cache, ty) ==
  CASE ty.k \in {"Vector", "Reference", "MutableReference"} -> ValidIndices(cache, ty.t)
    [] ty.k = "Struct" -> ty.idx \in DOMAIN cache.structs
    [] ty.k = "StructInst" ->
         /\ ty.idx \in DOMAIN cache.structs
         /\ \A i \in DOMAIN ty.tys : ValidIndices(cache, ty.tys[i])
    [] OTHER -> TRUE

\* Loader::abilities called on its own with a runtime type; struct_at takes
\* the read lock, and the struct indices of a runtime type are indices that
\* the struct vector has
AbilitiesOf(t) ==
  /\ Running(t, "abilities", "start")
  /\ ReadOk("module_cache")
  /\ ValidIndices(module_cache, Top(th[t]).ty)
  /\ th' = [th EXCEPT ![t] = Return(th[t], abilities(module_cache, Top(th[t]).ty))]
  /\ UNCHANGED <<scenario, type_cache, module_cache, scripts, locks, ncalls, insert_log,
                 linked, cyclic_passed>>

\* Loader::verify_ty_args, the loop over the zipped arguments and constraints
RECURSIVE check_constraints(_, _, _, _)
check_constraints(cache, constraints, ty_args, i) ==
  IF i > Len(ty_args) THEN Ok(Unit)
  ELSE LET a == abilities(cache, ty_args[i])
       IN  IF ~a.ok THEN a
           ELSE IF ~(constraints[i] \subseteq a.val) THEN Err("CONSTRAINT_NOT_SATISFIED")
           ELSE check_constraints(cache, constraints, ty_args, i + 1)

\* a verify_ty_args that compares the lengths and nothing else
verify_arity_only(cache, constraints, ty_args) ==
  IF Len(constraints) # Len(ty_args)
    THEN Err("NUMBER_OF_TYPE_ARGUMENTS_MISMATCH")
    ELSE Ok(Unit)

\* a verify_ty_args that accepts any number of arguments
verify_without_arity(cache, constraints, ty_args) ==
  IF Len(constraints) # Len(ty_args)
    THEN Ok(Unit)
    ELSE check_constraints(cache, constraints, ty_args, 1)

\* Loader::verify_ty_args
verify_ty_args(cache, constraints, ty_args) ==
  IF Len(constraints) # Len(ty_args)
    THEN Err("NUMBER_OF_TYPE_ARGUMENTS_MISMATCH")
    ELSE check_constraints(cache, constraints, ty_args, 1)

\* StructType::type_param_constraints
type_param_constraints(struct_type) ==
  [i \in 1..Len(struct_type.type_parameters) |-> struct_type.type_parameters[i].constraints]

\* Loader::load_type: a primitive tag, or the call for the element of a
\* vector or for the module of a struct
LoadType(t) ==
  /\ Running(t, "load_type", "start")
  /\ LET T == th[t]
         f == Top(T)
     IN  th' = [th EXCEPT ![t] =
           CASE f.tag.k = "Vector" ->
                  Push(SetTop(T, [f EXCEPT !.pc = "vector_done"]),
                       [Frame("load_type", "start", "-", TRUE) EXCEPT !.tag = f.tag.t])
             [] f.tag.k = "Struct" ->
                  Push(SetTop(T, [f EXCEPT !.pc = "module_loaded"]),
                       Frame("load_module_internal", "check", f.tag.module, TRUE))
             [] OTHER -> Return(T, Ok([k |-> f.tag.k]))]
  /\ UNCHANGED <<scenario, type_cache, module_cache, scripts, locks, ncalls, insert_log,
                 linked, cyclic_passed>>

LoadTypeVector(t) ==
  /\ Running(t, "load_type", "vector_done")
  /\ LET T == th[t]
     IN  th' = [th EXCEPT ![t] =
           IF ~T.ret.ok THEN Return(T, T.ret)
           ELSE Return(T, Ok([k |-> "Vector", t |-> T.ret.val]))]
  /\ UNCHANGED <<scenario, type_cache, module_cache, scripts, locks, ncalls, insert_log,
                 linked, cyclic_passed>>

\* a load_type that looks at the type parameters of the tag only
LoadTypeResolveTagOnly(t) ==
  /\ Running(t, "load_type", "module_loaded")
  /\ LET T == th[t]
         f == Top(T)
         r == resolve_struct_by_name(module_cache, f.tag.name, f.tag.module)
     IN  IF ~T.ret.ok
           THEN th' = [th EXCEPT ![t] = Return(T, T.ret)]
           ELSE /\ ReadOk("module_cache")
                /\ th' = [th EXCEPT ![t] =
                     IF ~r.ok THEN Return(T, r)
                     ELSE LET struct_type == module_cache.structs[r.val]
                          IN  IF f.tag.type_params = <<>>
                                THEN Return(T, Ok(TyStruct(r.val)))
                                ELSE SetTop(T, [f EXCEPT !.pc = "params", !.i = 1,
                                                  !.acc = <<>>, !.handle = r.val,
                                                  !.struct_type = struct_type])]
  /\ UNCHANGED <<scenario, type_cache, module_cache, scripts, locks, ncalls, insert_log,
                 linked, cyclic_passed>>

\* Loader::load_type, struct tag: resolve_struct_by_name under the read lock
LoadTypeResolve(t) ==
  /\ Running(t, "load_type", "module_loaded")
  /\ LET T == th[t]
         f == Top(T)
         r == resolve_struct_by_name(module_cache, f.tag.name, f.tag.module)
     IN  IF ~T.ret.ok
           THEN th' = [th EXCEPT ![t] = Return(T, T.ret)]
           ELSE /\ ReadOk("module_cache")
                /\ th' = [th EXCEPT ![t] =
                     IF ~r.ok THEN Return(T, r)
                     ELSE LET struct_type == module_cache.structs[r.val]
                          IN  IF struct_type.type_parameters = <<>>
                                   /\ f.tag.type_params = <<>>
                                THEN Return(T, Ok(TyStruct(r.val)))
                                ELSE SetTop(T, [f EXCEPT !.pc = "params", !.i = 1,
                                                  !.acc = <<>>, !.handle = r.val,
                                                  !.struct_type = struct_type])]
  /\ UNCHANGED <<scenario, type_cache, module_cache, scripts, locks, ncalls, insert_log,
                 linked, cyclic_passed>>

\* Loader::load_type, struct tag: the next type parameter, or verify_ty_args
\* (abilities reads the struct vector under the read lock)
LoadTypeParams(t) ==
  /\ Running(t, "load_type", "params")
  /\ LET T == th[t]
         f == Top(T)
     IN  IF f.i > Len(f.tag.type_params)
           THEN /\ ReadOk("module_cache")
                /\ LET v == verify_ty_args(module_cache,
                                           type_param_constraints(f.struct_type), f.acc)
                   IN  th' = [th EXCEPT ![t] =
                         IF ~v.ok THEN Return(T, v)
                         ELSE Return(T, Ok(TyStructInst(f.handle, f.acc)))]
           ELSE th' = [th EXCEPT ![t] =
                  Push(SetTop(T, [f EXCEPT !.pc = "param_done"]),
                       [Frame("load_type", "start", "-", TRUE)
                          EXCEPT !.tag = f.tag.type_params[f.i]])]
  /\ UNCHANGED <<scenario, type_cache, module_cache, scripts, locks, ncalls, insert_log,
                 linked, cyclic_passed>>

LoadTypeParamDone(t) ==
  /\ Running(t, "load_type", "param_done")
  /\ LET T == th[t]
         f == Top(T)
     IN  th' = [th EXCEPT ![t] =
           IF ~T.ret.ok THEN Return(T, T.ret)
           ELSE SetTop(T, [f EXCEPT !.pc = "params", !.i = @ + 1,
                             !.acc = Append(@, T.ret.val)])]
  /\ UNCHANGED <<scenario, type_cache, module_cache, scripts, locks, ncalls, insert_log,
                 linked, cyclic_passed>>

\* ---------------------------------------------------------------- load_function
\* Loader::load_function: load_module
LoadFunction(t) ==
  /\ Running(t, "load_function", "start")
  /\ LET T == th[t]
         f == Top(T)
     IN  th' = [th EXCEPT ![t] =
           Push(SetTop(T, [f EXCEPT !.pc = "module_loaded"]),
                Frame("load_module_internal", "check", f.id, TRUE))]
  /\ UNCHANGED <<scenario, type_cache, module_cache, scripts, locks, ncalls, insert_log,
                 linked, cyclic_passed>>

\* Loader::load_function: resolve_function_by_name, function_at and the
\* translation of the parameter tokens, each under the read lock
LoadFunctionResolve(t) ==
  /\ Running(t, "load_function", "module_loaded")
  /\ LET T == th[t]
         f == Top(T)
     IN  IF ~T.ret.ok
           THEN th' = [th EXCEPT ![t] = Return(T, T.ret)]
           ELSE /\ ReadOk("module_cache")
                /\ LET r == resolve_function_by_name(module_cache, f.name, f.id)
                   IN  th' = [th EXCEPT ![t] =
                         IF ~r.ok THEN Return(T, r)
                         ELSE LET func == module_cache.functions[r.val]
                                  module == module_cache.binaries[T.ret.val].module
                                  parameters == make_types(module_cache, module,
                                                           func.parameters, FALSE)
                              IN  IF ~parameters.ok THEN Return(T, parameters)
                                  ELSE SetTop(T, [f EXCEPT !.pc = "ty_args", !.i = 1,
                                                    !.acc = <<>>, !.handle = T.ret.val,
                                                    !.func = func,
                                                    !.list = parameters.val])]
  /\ UNCHANGED <<scenario, type_cache, module_cache, scripts, locks, ncalls, insert_log,
                 linked, cyclic_passed>>

\* Loader::load_function: load_type of the next tag, or verify_ty_args
LoadFunctionTyArgs(t) ==
  /\ Running(t, "load_function", "ty_args")
  /\ LET T == th[t]
         f == Top(T)
     IN  IF f.i > Len(f.tags)
           THEN /\ ReadOk("module_cache")
                /\ LET v == verify_ty_args(module_cache, f.func.type_parameters, f.acc)
                   IN  th' = [th EXCEPT ![t] =
                         IF ~v.ok THEN Return(T, v)
                         ELSE Return(T, Ok([module |-> f.handle, func |-> f.func,
                                            type_arguments |-> f.acc,
                                            parameters |-> f.list]))]
           ELSE th' = [th EXCEPT ![t] =
                  Push(SetTop(T, [f EXCEPT !.pc = "ty_arg_done"]),
                       [Frame("load_type", "start", "-", TRUE) EXCEPT !.tag = f.tags[f.i]])]
  /\ UNCHANGED <<scenario, type_cache, module_cache, scripts, locks, ncalls, insert_log,
                 linked, cyclic_passed>>

LoadFunctionTyArgDone(t) ==
  /\ Running(t, "load_function", "ty_arg_done")
  /\ LET T == th[t]
         f == Top(T)
     IN  th' = [th EXCEPT ![t] =
           IF ~T.ret.ok THEN Return(T, T.ret)
           ELSE SetTop(T, [f EXCEPT !.pc = "ty_args", !.i = @ + 1,
                             !.acc = Append(@, T.ret.val)])]
  /\ UNCHANGED <<scenario, type_cache, module_cache, scripts, locks, ncalls, insert_log,
                 linked, cyclic_passed>>

\* ---------------------------------------------------------------- load_script
\* Sha3_256 of the script bytes
Sha3_256(script_blob) == script_blob.hash

\* Script::new, struct handles and function handles: resolved by name in the
\* module cache, the first failure ends the construction
RECURSIVE script_struct_refs(_, _, _), script_function_refs(_, _, _)
script_struct_refs(script, cache, i) ==
  IF i > Len(script.struct_handles) THEN Ok(<<>>)
  ELSE LET sh == script.struct_handles[i]
           r == resolve_struct_by_name(cache, sh.name, sh.module)
       IN  IF ~r.ok THEN r
           ELSE LET rest == script_struct_refs(script, cache, i + 1)
                IN  IF ~rest.ok THEN rest ELSE Ok(<<r.val>> \o rest.val)
script_function_refs(script, cache, i) ==
  IF i > Len(script.function_handles) THEN Ok(<<>>)
  ELSE LET fh == script.function_handles[i]
           r == resolve_function_by_name(cache, fh.name, fh.module)
       IN  IF ~r.ok THEN r
           ELSE LET rest == script_function_refs(script, cache, i + 1)
                IN  IF ~rest.ok THEN rest ELSE Ok(<<r.val>> \o rest.val)

\* Script::new
Script_new(script, script_hash, cache) ==
  LET srefs == script_struct_refs(script, cache, 1)
  IN  IF ~srefs.ok THEN srefs
      ELSE LET frefs == script_function_refs(script, cache, 1)
           IN  IF ~frefs.ok THEN frefs
               ELSE LET ptys == make_types(cache, script, script.parameters, FALSE)
                    IN  IF ~ptys.ok THEN ptys
                        ELSE Ok([script |-> script, struct_refs |-> srefs.val,
                                 function_refs |-> frefs.val,
                                 main |-> [name |-> "main", scope |-> script_hash,
                                           type_parameters |-> script.type_parameters],
                                 parameter_tys |-> ptys.val, return_tys |-> <<>>])

\* ScriptCache::get: the entry point and the parameter and return types of
\* the script cached under the hash
ScriptCache_get(cache, hash) ==
  LET script == cache.binaries[cache.id_map[hash]]
  IN  [main |-> script.main, parameters |-> script.parameter_tys,
       return_ |-> script.return_tys]

\* an insert that pushes the script whether or not the hash is present
ScriptCache_insert_always(cache, hash, script) == BinaryCache_insert(cache, hash, script)

\* ScriptCache::insert: a hash that is present is not overwritten
ScriptCache_insert(cache, hash, script) ==
  IF hash \in DOMAIN cache.id_map THEN cache ELSE BinaryCache_insert(cache, hash, script)

\* a load_script that does not look the hash up
LoadScriptWithoutLookup(t) ==
  /\ Running(t, "load_script", "start")
  /\ WriteOk("scripts")
  /\ locks' = [locks EXCEPT !["scripts"].w = t]
  /\ th' = [th EXCEPT ![t] = SetTop([th[t] EXCEPT !.script_stage = "miss"],
                                    [Top(th[t]) EXCEPT !.pc = "verify"])]
  /\ UNCHANGED <<scenario, type_cache, module_cache, scripts, ncalls, insert_log,
                 linked, cyclic_passed>>

\* Loader::load_script: the script-cache write lock, held until the call
\* returns, and scripts.get
LoadScript(t) ==
  /\ Running(t, "load_script", "start")
  /\ WriteOk("scripts")
  /\ locks' = [locks EXCEPT !["scripts"].w = t]
  /\ LET T == th[t]
         f == Top(T)
         hash_value == Sha3_256(f.script)
     IN  th' = [th EXCEPT ![t] =
           IF hash_value \in DOMAIN scripts.id_map
             THEN SetTop([T EXCEPT !.script_stage = "hit"],
                         [f EXCEPT !.pc = "ty_args", !.i = 1, !.acc = <<>>,
                                   !.handle = scripts.id_map[hash_value]])
             ELSE SetTop([T EXCEPT !.script_stage = "miss"],
                         [f EXCEPT !.pc = "verify"])]
  /\ UNCHANGED <<scenario, type_cache, module_cache, scripts, ncalls, insert_log,
                 linked, cyclic_passed>>

\* Loader::deserialize_and_verify_script: CompiledScript::deserialize and
\* verify_script
VerifyScript(t) ==
  /\ Running(t, "load_script", "verify")
  /\ LET T == th[t]
         f == Top(T)
         r == IF ~f.script.deserializes THEN Err("CODE_DESERIALIZATION_ERROR")
              ELSE IF ~f.script.verifies THEN Err("VERIFICATION_ERROR")
              ELSE Ok(Unit)
     IN  IF r.ok
           THEN /\ th' = [th EXCEPT ![t] =
                     SetTop([T EXCEPT !.script_stage = "verified"],
                            [f EXCEPT !.pc = "deps", !.i = 1])]
                /\ UNCHANGED locks
           ELSE /\ th' = [th EXCEPT ![t] = Return(T, r)]
                /\ locks' = Unlocked("scripts")
  /\ UNCHANGED <<scenario, type_cache, module_cache, scripts, ncalls, insert_log,
                 linked, cyclic_passed>>

\* Loader::deserialize_and_verify_script: load_module of the next immediate
\* dependency
LoadScriptDeps(t) ==
  /\ Running(t, "load_script", "deps")
  /\ LET T == th[t]
         f == Top(T)
     IN  th' = [th EXCEPT ![t] =
           IF f.i > Len(f.script.deps) THEN SetTop(T, [f EXCEPT !.pc = "link"])
           ELSE Push(SetTop(T, [f EXCEPT !.pc = "dep_done"]),
                     Frame("load_module_internal", "check", f.script.deps[f.i], TRUE))]
  /\ UNCHANGED <<scenario, type_cache, module_cache, scripts, locks, ncalls, insert_log,
                 linked, cyclic_passed>>

\* a loop over the dependencies of a script that does not move on to the
\* next dependency
LoadScriptDepDoneRepeating(t) ==
  /\ Running(t, "load_script", "dep_done")
  /\ LET T == th[t]
         f == Top(T)
     IN  IF T.ret.ok
           THEN /\ th' = [th EXCEPT ![t] = SetTop(T, [f EXCEPT !.pc = "deps"])]
                /\ UNCHANGED locks
           ELSE /\ th' = [th EXCEPT ![t] = Return(T, T.ret)]
                /\ locks' = Unlocked("scripts")
  /\ UNCHANGED <<scenario, type_cache, module_cache, scripts, ncalls, insert_log,
                 linked, cyclic_passed>>

LoadScriptDepDone(t) ==
  /\ Running(t, "load_script", "dep_done")
  /\ LET T == th[t]
         f == Top(T)
     IN  IF T.ret.ok
           THEN /\ th' = [th EXCEPT ![t] =
                     SetTop(T, [f EXCEPT !.pc = "deps", !.i = @ + 1])]
                /\ UNCHANGED locks
           ELSE /\ th' = [th EXCEPT ![t] = Return(T, T.ret)]
                /\ locks' = Unlocked("scripts")
  /\ UNCHANGED <<scenario, type_cache, module_cache, scripts, ncalls, insert_log,
                 linked, cyclic_passed>>

\* Loader::verify_script_dependencies: dependencies::verify_script
LinkScript(t) ==
  /\ Running(t, "load_script", "link")
  /\ LET T == th[t]
         f == Top(T)
     IN  IF f.script.links
           THEN /\ th' = [th EXCEPT ![t] =
                     SetTop([T EXCEPT !.script_stage = "linked"], [f EXCEPT !.pc = "new"])]
                /\ UNCHANGED locks
           ELSE /\ th' = [th EXCEPT ![t] = Return(T, Err("LINKING_ERROR"))]
                /\ locks' = Unlocked("scripts")
  /\ UNCHANGED <<scenario, type_cache, module_cache, scripts, ncalls, insert_log,
                 linked, cyclic_passed>>

\* a load_script that caches the compiled script also when Script::new fails
NewScriptKeepingFailed(t) ==
  /\ Running(t, "load_script", "new")
  /\ ReadOk("module_cache")
  /\ LET T == th[t]
         f == Top(T)
         hash_value == Sha3_256(f.script)
         r == Script_new(f.script, hash_value, module_cache)
         unresolved == [script |-> f.script, struct_refs |-> <<>>, function_refs |-> <<>>,
                        main |-> [name |-> "main", scope |-> hash_value,
                                  type_parameters |-> f.script.type_parameters],
                        parameter_tys |-> <<>>, return_tys |-> <<>>]
     IN  IF r.ok
           THEN /\ scripts' = ScriptCache_insert(scripts, hash_value, r.val)
                /\ th' = [th EXCEPT ![t] =
                     SetTop([T EXCEPT !.script_stage = "inserted"],
                            [f EXCEPT !.pc = "ty_args", !.i = 1, !.acc = <<>>,
                                      !.handle = scripts'.id_map[hash_value]])]
                /\ UNCHANGED locks
           ELSE /\ th' = [th EXCEPT ![t] = Return(T, r)]
                /\ locks' = Unlocked("scripts")
                /\ scripts' = ScriptCache_insert(scripts, hash_value, unresolved)
  /\ UNCHANGED <<scenario, type_cache, module_cache, ncalls, insert_log, linked, cyclic_passed>>

\* Loader::load_script: Script::new under the module-cache read lock, then
\* scripts.insert
NewScript(t) ==
  /\ Running(t, "load_script", "new")
  /\ ReadOk("module_cache")
  /\ LET T == th[t]
         f == Top(T)
         hash_value == Sha3_256(f.script)
         r == Script_new(f.script, hash_value, module_cache)
     IN  IF r.ok
           THEN /\ scripts' = ScriptCache_insert(scripts, hash_value, r.val)
                /\ th' = [th EXCEPT ![t] =
                     SetTop([T EXCEPT !.script_stage = "inserted"],
                            [f EXCEPT !.pc = "ty_args", !.i = 1, !.acc = <<>>,
                                      !.handle = scripts'.id_map[hash_value]])]
                /\ UNCHANGED locks
           ELSE /\ th' = [th EXCEPT ![t] = Return(T, r)]
                /\ locks' = Unlocked("scripts")
                /\ UNCHANGED scripts
  /\ UNCHANGED <<scenario, type_cache, module_cache, ncalls, insert_log, linked, cyclic_passed>>

\* ScriptCache::insert called on its own with a hash and a Script built from
\* the compiled script of the call; &mut self makes the call exclusive
ScriptCacheInsert(t) ==
  /\ Running(t, "script_cache_insert", "start")
  /\ WriteOk("scripts")
  /\ ReadOk("module_cache")
  /\ LET T == th[t]
         f == Top(T)
         r == Script_new(f.script, f.name, module_cache)
     IN  IF r.ok
           THEN /\ scripts' = ScriptCache_insert(scripts, f.name, r.val)
                /\ th' = [th EXCEPT ![t] =
                            Return(T, Ok(ScriptCache_get(scripts', f.name)))]
           ELSE /\ th' = [th EXCEPT ![t] = Return(T, r)]
                /\ UNCHANGED scripts
  /\ UNCHANGED <<scenario, type_cache, module_cache, locks, ncalls, insert_log,
                 linked, cyclic_passed>>

\* BinaryCache::insert called on its own on the BinaryCache of the script
\* cache, with a key and a value of the caller's choice; &mut self makes the
\* call exclusive.  The call returns the pushed value.
BinaryCacheInsert(t) ==
  /\ Running(t, "binary_cache_insert", "start")
  /\ WriteOk("scripts")
  /\ LET T == th[t]
         f == Top(T)
     IN  /\ scripts' = BinaryCache_insert(scripts, f.name, f.script)
         /\ th' = [th EXCEPT ![t] =
                     Return(T, Ok(scripts'.binaries[Len(scripts'.binaries)]))]
  /\ UNCHANGED <<scenario, type_cache, module_cache, locks, ncalls, insert_log,
                 linked, cyclic_passed>>

\* Loader::load_script: load_type of the next tag, or verify_ty_args against
\* the type parameters of main; the script-cache lock is dropped on return
LoadScriptTyArgs(t) ==
  /\ Running(t, "load_script", "ty_args")
  /\ LET T == th[t]
         f == Top(T)
         entry == scripts.binaries[f.handle]
     IN  IF f.i > Len(f.tags)
           THEN /\ ReadOk("module_cache")
                /\ LET v == verify_ty_args(module_cache, entry.main.type_parameters, f.acc)
                   IN  th' = [th EXCEPT ![t] =
                         IF ~v.ok THEN Return(T, v)
                         ELSE Return(T, Ok([main |-> f.handle, type_arguments |-> f.acc,
                                            parameters |-> entry.parameter_tys,
                                            return_ |-> entry.return_tys]))]
                /\ locks' = Unlocked("scripts")
           ELSE /\ th' = [th EXCEPT ![t] =
                     Push(SetTop(T, [f EXCEPT !.pc = "ty_arg_done"]),
                          [Frame("load_type", "start", "-", TRUE)
                             EXCEPT !.tag = f.tags[f.i]])]
                /\ UNCHANGED locks
  /\ UNCHANGED <<scenario, type_cache, module_cache, scripts, ncalls, insert_log,
                 linked, cyclic_passed>>

LoadScriptTyArgDone(t) ==
  /\ Running(t, "load_script", "ty_arg_done")
  /\ LET T == th[t]
         f == Top(T)
     IN  IF T.ret.ok
           THEN /\ th' = [th EXCEPT ![t] =
                     SetTop(T, [f EXCEPT !.pc = "ty_args", !.i = @ + 1,
                                  !.acc = Append(@, T.ret.val)])]
                /\ UNCHANGED locks
           ELSE /\ th' = [th EXCEPT ![t] = Return(T, T.ret)]
                /\ locks' = Unlocked("scripts")
  /\ UNCHANGED <<scenario, type_cache, module_cache, scripts, ncalls, insert_log,
                 linked, cyclic_passed>>

\* ---------------------------------------------------------------- publication
\* BTreeMap::insert on bundle_verified
map_insert(map, id, module) ==
  [x \in DOMAIN map \cup {id} |-> IF x = id THEN module ELSE map[x]]

\* the bundle of a call is over: its two collections are dropped
DropBundle(T) == [T EXCEPT !.bundle_verified = <<>>, !.bundle_unverified = {}]

\* Loader::verify_module_bundle_for_publication: bundle_unverified holds
\* every id of the bundle, bundle_verified is empty
VerifyBundle(t) ==
  /\ Running(t, "verify_module_bundle_for_publication", "start")
  /\ LET T == th[t]
         f == Top(T)
     IN  th' = [th EXCEPT ![t] =
           SetTop([T EXCEPT !.bundle_unverified = {f.list[i].self_id : i \in DOMAIN f.list},
                            !.bundle_verified = <<>>],
                  [f EXCEPT !.pc = "loop", !.i = 1])]
  /\ UNCHANGED <<scenario, type_cache, module_cache, scripts, locks, ncalls, insert_log,
                 linked, cyclic_passed>>

\* a loop that leaves the module it verifies in bundle_unverified
VerifyBundleNextKeeping(t) ==
  /\ Running(t, "verify_module_bundle_for_publication", "loop")
  /\ LET T == th[t]
         f == Top(T)
     IN  th' = [th EXCEPT ![t] =
           IF f.i > Len(f.list) THEN Return(DropBundle(T), Ok(Unit))
           ELSE Push(SetTop(T, [f EXCEPT !.pc = "module_done"]),
                     [Frame("verify_module_for_publication", "start",
                            f.list[f.i].self_id, TRUE)
                        EXCEPT !.module = f.list[f.i]])]
  /\ UNCHANGED <<scenario, type_cache, module_cache, scripts, locks, ncalls, insert_log,
                 linked, cyclic_passed>>

\* ... the next module of the bundle leaves bundle_unverified and is verified
VerifyBundleNext(t) ==
  /\ Running(t, "verify_module_bundle_for_publication", "loop")
  /\ LET T == th[t]
         f == Top(T)
     IN  th' = [th EXCEPT ![t] =
           IF f.i > Len(f.list) THEN Return(DropBundle(T), Ok(Unit))
           ELSE Push(SetTop([T EXCEPT !.bundle_unverified = @ \ {f.list[f.i].self_id}],
                            [f EXCEPT !.pc = "module_done"]),
                     [Frame("verify_module_for_publication", "start",
                            f.list[f.i].self_id, TRUE)
                        EXCEPT !.module = f.list[f.i]])]
  /\ UNCHANGED <<scenario, type_cache, module_cache, scripts, locks, ncalls, insert_log,
                 linked, cyclic_passed>>

\* ... and, verified, enters bundle_verified; the first error ends the call
VerifyBundleModuleDone(t) ==
  /\ Running(t, "verify_module_bundle_for_publication", "module_done")
  /\ LET T == th[t]
         f == Top(T)
     IN  th' = [th EXCEPT ![t] =
           IF ~T.ret.ok THEN Return(DropBundle(T), T.ret)
           ELSE SetTop([T EXCEPT !.bundle_verified =
                                   map_insert(@, f.list[f.i].self_id, f.list[f.i])],
                       [f EXCEPT !.pc = "loop", !.i = @ + 1])]
  /\ UNCHANGED <<scenario, type_cache, module_cache, scripts, locks, ncalls, insert_log,
                 linked, cyclic_passed>>

\* Loader::verify_module_for_publication: verify_module and check_natives of
\* the supplied module, whose errors are returned as they are
verify_module_for_publication_checks(module) ==
  IF ~module.verifies THEN Err("VERIFICATION_ERROR")
  ELSE IF ~check_natives(module).ok THEN check_natives(module)
  ELSE Ok(module)

\* Loader::verify_module_for_publication: the checks, visited and
\* friends_discovered, and the dependencies, which may fail to load
VerifyForPublication(t) ==
  /\ Running(t, "verify_module_for_publication", "start")
  /\ LET T == th[t]
         f == Top(T)
         r == verify_module_for_publication_checks(f.module)
     IN  th' = [th EXCEPT ![t] =
           IF ~r.ok THEN Return(T, r)
           ELSE Push([SetTop(T, [f EXCEPT !.pc = "deps_done"])
                        EXCEPT !.visited = {f.module.self_id},
                               !.friends_discovered = Range(f.module.friends)],
                     [Frame("load_deps", "loop", f.id, TRUE) EXCEPT !.module = f.module])]
  /\ UNCHANGED <<scenario, type_cache, module_cache, scripts, locks, ncalls, insert_log,
                 linked, cyclic_passed>>

\* ... then the friends discovered, which may fail to load
VerifyForPublicationFriends(t) ==
  /\ Running(t, "verify_module_for_publication", "deps_done")
  /\ LET T == th[t]
         f == Top(T)
     IN  th' = [th EXCEPT ![t] =
           IF ~T.ret.ok THEN Return(T, T.ret)
           ELSE Push(SetTop(T, [f EXCEPT !.pc = "friends_done"]),
                     [Frame("load_friends", "filter", f.id, TRUE)
                        EXCEPT !.list = SortedSeq(T.friends_discovered)])]
  /\ UNCHANGED <<scenario, type_cache, module_cache, scripts, locks, ncalls, insert_log,
                 linked, cyclic_passed>>

\* ... then verify_module_cyclic_relations under the module-cache read lock,
\* whose error is returned as it is
VerifyForPublicationCyclic(t) ==
  /\ Running(t, "verify_module_for_publication", "friends_done")
  /\ LET T == th[t]
         f == Top(T)
     IN  IF ~T.ret.ok
           THEN th' = [th EXCEPT ![t] = Return(T, T.ret)]
           ELSE /\ ReadOk("module_cache")
                /\ th' = [th EXCEPT ![t] =
                     Return(T, verify_module_cyclic_relations(
                                 module_cache, f.module, T.bundle_verified,
                                 T.bundle_unverified))]
  /\ UNCHANGED <<scenario, type_cache, module_cache, scripts, locks, ncalls, insert_log,
                 linked, cyclic_passed>>

\* ---------------------------------------------------------------- type cache
VALUE_DEPTH_MAX == 128

\* TypeCache::new
EmptyTypeCache == {}

\* Type::subst: TyParam(i) is replaced by ty_args[i]
RECURSIVE subst(_, _)
subst(ty, ty_args) ==
  CASE ty.k = "TyParam" ->
         IF ty.i < Len(ty_args) THEN Ok(ty_args[ty.i + 1])
         ELSE Err("UNKNOWN_INVARIANT_VIOLATION_ERROR")
    [] ty.k = "Vector" ->
         LET r == subst(ty.t, ty_args)
         IN  IF r.ok THEN Ok([k |-> "Vector", t |-> r.val]) ELSE r
    [] ty.k = "StructInst" ->
         LET rs == [i \in DOMAIN ty.tys |-> subst(ty.tys[i], ty_args)]
             bad == {i \in DOMAIN rs : ~rs[i].ok}
         IN  IF bad = {}
               THEN Ok(TyStructInst(ty.idx, [i \in DOMAIN rs |-> rs[i].val]))
               ELSE rs[CHOOSE i \in bad : \A j \in bad : i <= j]
    [] OTHER -> Ok(ty)

\* the field types of a struct, each mapped through subst; the first error
subst_fields(fields, ty_args) ==
  LET rs == [i \in DOMAIN fields |-> subst(fields[i], ty_args)]
      bad == {i \in DOMAIN rs : ~rs[i].ok}
  IN  IF bad = {} THEN Ok([i \in DOMAIN rs |-> rs[i].val])
      ELSE rs[CHOOSE i \in bad : \A j \in bad : i <= j]

\* Option::None
None == [k |-> "None"]

\* the StructInfo entries of the type cache under (gidx, ty_args): at most one
struct_infos(tc, gidx, ty_args) ==
  {e \in tc : e.gidx = gidx /\ e.ty_args = ty_args}

\* entry(gidx).or_insert_with(HashMap::new).entry(ty_args)
\* .or_insert_with(StructInfo::new)
struct_info_entry(tc, gidx, ty_args) ==
  IF struct_infos(tc, gidx, ty_args) # {}
    THEN CHOOSE e \in struct_infos(tc, gidx, ty_args) : TRUE
    ELSE [gidx |-> gidx, ty_args |-> ty_args, struct_tag |-> None, struct_layout |-> None]

\* type_cache.structs.get(gidx).get(ty_args).struct_layout
cached_layout(tc, gidx, ty_args) ==
  {e \in struct_infos(tc, gidx, ty_args) : e.struct_layout # None}

\* a store that puts a new StructInfo in the place of the one the key has
store_layout_fresh(tc, gidx, ty_args, layout) ==
  (tc \ struct_infos(tc, gidx, ty_args))
    \cup {[gidx |-> gidx, ty_args |-> ty_args, struct_tag |-> None,
           struct_layout |-> layout]}

\* type_cache.structs.entry(gidx).entry(ty_args).struct_layout = Some(layout)
store_layout(tc, gidx, ty_args, layout) ==
  (tc \ struct_infos(tc, gidx, ty_args))
    \cup {[struct_info_entry(tc, gidx, ty_args) EXCEPT !.struct_layout = layout]}

\* type_cache.structs.get(gidx).get(ty_args).struct_tag
cached_tag(tc, gidx, ty_args) ==
  {e \in struct_infos(tc, gidx, ty_args) : e.struct_tag # None}

\* a store that keeps the tag the entry already has
store_tag_keeping_first(tc, gidx, ty_args, struct_tag) ==
  IF cached_tag(tc, gidx, ty_args) # {} THEN tc
  ELSE (tc \ struct_infos(tc, gidx, ty_args))
         \cup {[struct_info_entry(tc, gidx, ty_args) EXCEPT !.struct_tag = struct_tag]}

\* type_cache.structs.entry(gidx).entry(ty_args).struct_tag = Some(struct_tag)
store_tag(tc, gidx, ty_args, struct_tag) ==
  (tc \ struct_infos(tc, gidx, ty_args))
    \cup {[struct_info_entry(tc, gidx, ty_args) EXCEPT !.struct_tag = struct_tag]}

\* Loader::get_type_layout: load_type of the tag
GetTypeLayout(t) ==
  /\ Running(t, "get_type_layout", "start")
  /\ LET T == th[t]
         f == Top(T)
     IN  th' = [th EXCEPT ![t] =
           Push(SetTop(T, [f EXCEPT !.pc = "loaded"]),
                [Frame("load_type", "start", "-", TRUE) EXCEPT !.tag = f.tag])]
  /\ UNCHANGED <<scenario, type_cache, module_cache, scripts, locks, ncalls, insert_log,
                 linked, cyclic_passed>>

\* Loader::get_type_layout: the error of load_type, or type_to_type_layout
\* of the loaded type, which enters type_to_type_layout_impl at depth 1
TypeToTypeLayout(t) ==
  /\ Running(t, "get_type_layout", "loaded")
  /\ LET T == th[t]
         f == Top(T)
     IN  th' = [th EXCEPT ![t] =
           IF ~T.ret.ok THEN Return(T, T.ret)
           ELSE SetTop([T EXCEPT !.layout = [ty |-> T.ret.val, pre |-> type_cache,
                                             computed |-> {}, ran |-> TRUE]],
                       [Frame("type_to_type_layout_impl", "start", "-", TRUE)
                          EXCEPT !.ty = T.ret.val, !.depth = 1])]
  /\ UNCHANGED <<scenario, type_cache, module_cache, scripts, locks, ncalls, insert_log,
                 linked, cyclic_passed>>

\* Loader::type_to_type_layout_impl: the depth check, a primitive layout, or
\* the call for the element of a vector or for the layout of a struct
LayoutImpl(t) ==
  /\ Running(t, "type_to_type_layout_impl", "start")
  /\ LET T == th[t]
         f == Top(T)
     IN  th' = [th EXCEPT ![t] =
           IF f.depth > VALUE_DEPTH_MAX
             THEN Return(T, Err("VM_MAX_VALUE_DEPTH_REACHED"))
             ELSE CASE f.ty.k \in PrimitiveKinds \cup {"Signer"} ->
                         Return(T, Ok([k |-> f.ty.k]))
                    [] f.ty.k = "Vector" ->
                         Push(SetTop(T, [f EXCEPT !.pc = "vector_done"]),
                              [Frame("type_to_type_layout_impl", "start", "-", TRUE)
                                 EXCEPT !.ty = f.ty.t, !.depth = f.depth + 1])
                    [] f.ty.k = "Struct" ->
                         Push(SetTop(T, [f EXCEPT !.pc = "struct_done"]),
                              [Frame("struct_gidx_to_type_layout", "lookup", "-", TRUE)
                                 EXCEPT !.handle = f.ty.idx, !.ty_args = <<>>,
                                        !.depth = f.depth])
                    [] f.ty.k = "StructInst" ->
                         Push(SetTop(T, [f EXCEPT !.pc = "struct_done"]),
                              [Frame("struct_gidx_to_type_layout", "lookup", "-", TRUE)
                                 EXCEPT !.handle = f.ty.idx, !.ty_args = f.ty.tys,
                                        !.depth = f.depth])
                    [] OTHER -> Return(T, Err("UNKNOWN_INVARIANT_VIOLATION_ERROR"))]
  /\ UNCHANGED <<scenario, type_cache, module_cache, scripts, locks, ncalls, insert_log,
                 linked, cyclic_passed>>

\* Loader::type_to_type_layout_impl: MoveTypeLayout::Vector of the element
LayoutVectorDone(t) ==
  /\ Running(t, "type_to_type_layout_impl", "vector_done")
  /\ LET T == th[t]
     IN  th' = [th EXCEPT ![t] =
           IF ~T.ret.ok THEN Return(T, T.ret)
           ELSE Return(T, Ok([k |-> "Vector", t |-> T.ret.val]))]
  /\ UNCHANGED <<scenario, type_cache, module_cache, scripts, locks, ncalls, insert_log,
                 linked, cyclic_passed>>

\* Loader::type_to_type_layout_impl: MoveTypeLayout::Struct of the layout
LayoutStructDone(t) ==
  /\ Running(t, "type_to_type_layout_impl", "struct_done")
  /\ LET T == th[t]
     IN  th' = [th EXCEPT ![t] =
           IF ~T.ret.ok THEN Return(T, T.ret)
           ELSE Return(T, Ok([k |-> "Struct", s |-> T.ret.val]))]
  /\ UNCHANGED <<scenario, type_cache, module_cache, scripts, locks, ncalls, insert_log,
                 linked, cyclic_passed>>

\* a struct_gidx_to_type_layout that does not look the layout up
StructLayoutRecompute(t) ==
  /\ Running(t, "struct_gidx_to_type_layout", "lookup")
  /\ ReadOk("type_cache")
  /\ th' = [th EXCEPT ![t] = SetTop(th[t], [Top(th[t]) EXCEPT !.pc = "fields"])]
  /\ UNCHANGED <<scenario, type_cache, module_cache, scripts, locks, ncalls, insert_log,
                 linked, cyclic_passed>>

\* Loader::struct_gidx_to_type_layout: the lookup under the type-cache read
\* lock
StructLayoutLookup(t) ==
  /\ Running(t, "struct_gidx_to_type_layout", "lookup")
  /\ ReadOk("type_cache")
  /\ LET T == th[t]
         f == Top(T)
         hit == cached_layout(type_cache, f.handle, f.ty_args)
     IN  th' = [th EXCEPT ![t] =
           IF hit # {} THEN Return(T, Ok((CHOOSE e \in hit : TRUE).struct_layout))
           ELSE SetTop(T, [f EXCEPT !.pc = "fields"])]
  /\ UNCHANGED <<scenario, type_cache, module_cache, scripts, locks, ncalls, insert_log,
                 linked, cyclic_passed>>

\* Loader::struct_gidx_to_type_layout: struct_at under the module-cache read
\* lock, and the field types mapped through subst
StructLayoutFields(t) ==
  /\ Running(t, "struct_gidx_to_type_layout", "fields")
  /\ ReadOk("module_cache")
  /\ LET T == th[t]
         f == Top(T)
         field_tys == subst_fields(module_cache.structs[f.handle].fields, f.ty_args)
     IN  th' = [th EXCEPT ![t] =
           IF ~field_tys.ok THEN Return(T, field_tys)
           ELSE SetTop(T, [f EXCEPT !.pc = "next", !.list = field_tys.val,
                             !.i = 1, !.acc = <<>>])]
  /\ UNCHANGED <<scenario, type_cache, module_cache, scripts, locks, ncalls, insert_log,
                 linked, cyclic_passed>>

\* Loader::struct_gidx_to_type_layout: the layout of the next field at
\* depth + 1, or, after the last field, the layout stored under the
\* type-cache write lock
StructLayoutNext(t) ==
  /\ Running(t, "struct_gidx_to_type_layout", "next")
  /\ LET T == th[t]
         f == Top(T)
     IN  IF f.i > Len(f.list)
           THEN /\ WriteOk("type_cache")
                /\ type_cache' = store_layout(type_cache, f.handle, f.ty_args,
                                              [fields |-> f.acc])
                /\ th' = [th EXCEPT ![t] =
                     Return([T EXCEPT !.layout.computed =
                                        @ \cup {<<f.handle, f.ty_args>>}],
                            Ok([fields |-> f.acc]))]
           ELSE /\ th' = [th EXCEPT ![t] =
                     Push(SetTop(T, [f EXCEPT !.pc = "field_done"]),
                          [Frame("type_to_type_layout_impl", "start", "-", TRUE)
                             EXCEPT !.ty = f.list[f.i], !.depth = f.depth + 1])]
                /\ UNCHANGED type_cache
  /\ UNCHANGED <<scenario, module_cache, scripts, locks, ncalls, insert_log,
                 linked, cyclic_passed>>

\* Loader::struct_gidx_to_type_layout: collect stops at the first error
StructLayoutFieldDone(t) ==
  /\ Running(t, "struct_gidx_to_type_layout", "field_done")
  /\ LET T == th[t]
         f == Top(T)
     IN  th' = [th EXCEPT ![t] =
           IF ~T.ret.ok THEN Return(T, T.ret)
           ELSE SetTop(T, [f EXCEPT !.pc = "next", !.i = @ + 1,
                             !.acc = Append(@, T.ret.val)])]
  /\ UNCHANGED <<scenario, type_cache, module_cache, scripts, locks, ncalls, insert_log,
                 linked, cyclic_passed>>

\* Loader::type_to_type_layout called on its own with a runtime type: it
\* enters type_to_type_layout_impl at depth 1
TypeToTypeLayoutOf(t) ==
  /\ Running(t, "type_to_type_layout", "start")
  /\ LET T == th[t]
         f == Top(T)
     IN  th' = [th EXCEPT ![t] =
           SetTop([T EXCEPT !.layout = [ty |-> f.ty, pre |-> type_cache,
                                        computed |-> {}, ran |-> TRUE]],
                  [Frame("type_to_type_layout_impl", "start", "-", TRUE)
                     EXCEPT !.ty = f.ty, !.depth = 1])]
  /\ UNCHANGED <<scenario, type_cache, module_cache, scripts, locks, ncalls, insert_log,
                 linked, cyclic_passed>>

\* Loader::type_to_type_tag and type_to_type_tag_impl: a primitive tag, the
\* call for the element of a vector or for the tag of a struct, or the error
\* for a reference or a type parameter
TypeToTypeTag(t) ==
  /\ Running(t, "type_to_type_tag_impl", "start")
  /\ LET T == th[t]
         f == Top(T)
     IN  th' = [th EXCEPT ![t] =
           CASE f.ty.k \in PrimitiveKinds \cup {"Signer"} -> Return(T, Ok([k |-> f.ty.k]))
             [] f.ty.k = "Vector" ->
                  Push(SetTop(T, [f EXCEPT !.pc = "vector_done"]),
                       [Frame("type_to_type_tag_impl", "start", "-", TRUE)
                          EXCEPT !.ty = f.ty.t])
             [] f.ty.k = "Struct" ->
                  Push(SetTop(T, [f EXCEPT !.pc = "struct_done"]),
                       [Frame("struct_gidx_to_type_tag", "lookup", "-", TRUE)
                          EXCEPT !.handle = f.ty.idx, !.ty_args = <<>>])
             [] f.ty.k = "StructInst" ->
                  Push(SetTop(T, [f EXCEPT !.pc = "struct_done"]),
                       [Frame("struct_gidx_to_type_tag", "lookup", "-", TRUE)
                          EXCEPT !.handle = f.ty.idx, !.ty_args = f.ty.tys])
             [] OTHER -> Return(T, Err("UNKNOWN_INVARIANT_VIOLATION_ERROR"))]
  /\ UNCHANGED <<scenario, type_cache, module_cache, scripts, locks, ncalls, insert_log,
                 linked, cyclic_passed>>

\* Loader::type_to_type_tag_impl: TypeTag::Vector of the element
TagVectorDone(t) ==
  /\ Running(t, "type_to_type_tag_impl", "vector_done")
  /\ LET T == th[t]
     IN  th' = [th EXCEPT ![t] =
           IF ~T.ret.ok THEN Return(T, T.ret)
           ELSE Return(T, Ok([k |-> "Vector", t |-> T.ret.val]))]
  /\ UNCHANGED <<scenario, type_cache, module_cache, scripts, locks, ncalls, insert_log,
                 linked, cyclic_passed>>

\* Loader::type_to_type_tag_impl: TypeTag::Struct of the struct tag
TagStructDone(t) ==
  /\ Running(t, "type_to_type_tag_impl", "struct_done")
  /\ th' = [th EXCEPT ![t] = Return(th[t], th[t].ret)]
  /\ UNCHANGED <<scenario, type_cache, module_cache, scripts, locks, ncalls, insert_log,
                 linked, cyclic_passed>>

\* Loader::struct_gidx_to_type_tag: the lookup under the type-cache read lock
StructTagLookup(t) ==
  /\ Running(t, "struct_gidx_to_type_tag", "lookup")
  /\ ReadOk("type_cache")
  /\ LET T == th[t]
         f == Top(T)
         hit == cached_tag(type_cache, f.handle, f.ty_args)
     IN  th' = [th EXCEPT ![t] =
           IF hit # {} THEN Return(T, Ok((CHOOSE e \in hit : TRUE).struct_tag))
           ELSE SetTop(T, [f EXCEPT !.pc = "args", !.i = 1, !.acc = <<>>])]
  /\ UNCHANGED <<scenario, type_cache, module_cache, scripts, locks, ncalls, insert_log,
                 linked, cyclic_passed>>

\* Loader::struct_gidx_to_type_tag: the tag of the next type argument, or,
\* after the last one, struct_at under the module-cache read lock and the
\* StructTag of the struct
StructTagArgs(t) ==
  /\ Running(t, "struct_gidx_to_type_tag", "args")
  /\ LET T == th[t]
         f == Top(T)
     IN  IF f.i > Len(f.ty_args)
           THEN /\ ReadOk("module_cache")
                /\ LET struct_type == module_cache.structs[f.handle]
                   IN  th' = [th EXCEPT ![t] =
                         SetTop(T, [f EXCEPT !.pc = "store",
                                      !.tag = [k |-> "Struct",
                                               module |-> struct_type.module,
                                               name |-> struct_type.name,
                                               type_params |-> f.acc]])]
           ELSE th' = [th EXCEPT ![t] =
                  Push(SetTop(T, [f EXCEPT !.pc = "arg_done"]),
                       [Frame("type_to_type_tag_impl", "start", "-", TRUE)
                          EXCEPT !.ty = f.ty_args[f.i]])]
  /\ UNCHANGED <<scenario, type_cache, module_cache, scripts, locks, ncalls, insert_log,
                 linked, cyclic_passed>>

\* Loader::struct_gidx_to_type_tag: collect stops at the first error
StructTagArgDone(t) ==
  /\ Running(t, "struct_gidx_to_type_tag", "arg_done")
  /\ LET T == th[t]
         f == Top(T)
     IN  th' = [th EXCEPT ![t] =
           IF ~T.ret.ok THEN Return(T, T.ret)
           ELSE SetTop(T, [f EXCEPT !.pc = "args", !.i = @ + 1,
                             !.acc = Append(@, T.ret.val)])]
  /\ UNCHANGED <<scenario, type_cache, module_cache, scripts, locks, ncalls, insert_log,
                 linked, cyclic_passed>>

\* Loader::struct_gidx_to_type_tag: the tag stored under the type-cache write
\* lock
StructTagStore(t) ==
  /\ Running(t, "struct_gidx_to_type_tag", "store")
  /\ WriteOk("type_cache")
  /\ LET T == th[t]
         f == Top(T)
     IN  /\ type_cache' = store_tag(type_cache, f.handle, f.ty_args, f.tag)
         /\ th' = [th EXCEPT ![t] = Return(T, Ok(f.tag))]
  /\ UNCHANGED <<scenario, module_cache, scripts, locks, ncalls, insert_log,
                 linked, cyclic_passed>>

\* ---------------------------------------------------------------- data stores
CopyDrop == {"copy", "drop"}

\* C <- B <- A, every module sound; C names A as a friend
ChainC ==
  [M0("C") EXCEPT
     !.friends = <<"A">>,
     !.struct_handles = <<SH("C", "Coin", CopyDrop, <<>>),
                          SH("C", "Res", {"key"}, <<>>),
                          SH("C", "Box", CopyDrop, <<TP({"copy"}, FALSE)>>)>>,
     !.struct_defs = <<SD(1, <<TokU64>>), SD(2, <<TokStruct(1)>>),
                       SD(3, <<TokTyParam(0)>>)>>]
ChainB ==
  [M0("B") EXCEPT
     !.deps = <<"C">>,
     !.struct_handles = <<SH("B", "Pair", CopyDrop, <<>>), SH("C", "Coin", CopyDrop, <<>>)>>,
     !.struct_defs = <<SD(1, <<TokStruct(2), TokVector(TokStruct(2))>>)>>,
     !.function_handles = <<FH("B", "g", <<>>, <<TokStruct(2)>>)>>,
     !.function_defs = <<FD(1)>>]
ChainA ==
  [M0("A") EXCEPT
     !.deps = <<"B">>,
     !.struct_handles = <<SH("A", "Outer", CopyDrop, <<>>), SH("A", "Inner", CopyDrop, <<>>)>>,
     !.struct_defs = <<SD(1, <<TokStruct(2)>>), SD(2, <<TokU64>>)>>,
     !.function_handles = <<FH("A", "f", <<{"copy"}>>, <<TokTyParam(0)>>),
                            FH("B", "g", <<>>, <<>>)>>,
     !.function_defs = <<FD(1)>>]
ChainStore == [id \in ModuleIds |-> CASE id = "A" -> ChainA [] id = "B" -> ChainB
                                      [] id = "D" -> Missing [] OTHER -> ChainC]

\* A <-> B
CycleStore ==
  [id \in ModuleIds |->
     CASE id = "A" -> [M0("A") EXCEPT !.deps = <<"C", "B">>]
       [] id = "B" -> [M0("B") EXCEPT !.deps = <<"A">>]
       [] id = "D" -> Missing [] OTHER -> ChainC]

\* A <-> B, where B does not pass the bytecode verifier
BadCycleStore == [CycleStore EXCEPT !["B"].verifies = FALSE]

\* B sound; the field of A.S names a struct B does not declare; C calls a
\* function B does not declare
BrokenA ==
  [M0("A") EXCEPT
     !.deps = <<"B">>,
     !.struct_handles = <<SH("A", "S", CopyDrop, <<>>), SH("B", "Nope", CopyDrop, <<>>)>>,
     !.struct_defs = <<SD(1, <<TokStruct(2)>>)>>,
     !.function_handles = <<FH("A", "f", <<>>, <<>>)>>,
     !.function_defs = <<FD(1)>>]
BrokenC ==
  [M0("C") EXCEPT
     !.deps = <<"B">>,
     !.struct_handles = <<SH("C", "S", CopyDrop, <<>>)>>,
     !.struct_defs = <<SD(1, <<TokU64>>)>>,
     !.function_handles = <<FH("C", "f", <<>>, <<>>), FH("B", "nofn", <<>>, <<>>)>>,
     !.function_defs = <<FD(1)>>]
SoundB ==
  [M0("B") EXCEPT
     !.struct_handles = <<SH("B", "T", CopyDrop, <<>>)>>,
     !.struct_defs = <<SD(1, <<TokU64>>)>>,
     !.function_handles = <<FH("B", "g", <<>>, <<>>)>>,
     !.function_defs = <<FD(1)>>]
BrokenStore == [id \in ModuleIds |-> CASE id = "A" -> BrokenA [] id = "B" -> SoundB
                                       [] id = "D" -> Missing [] OTHER -> BrokenC]

\* C <- B <- A, where B does not pass the linking check
UnlinkedStore == [ChainStore EXCEPT !["B"].links = FALSE]

\* A and B both declare a struct S; the structs of A name A::S before and
\* after its declaration, and B::S
SelfRefA ==
  [M0("A") EXCEPT
     !.deps = <<"B">>,
     !.struct_handles = <<SH("A", "Holder", CopyDrop, <<>>), SH("A", "S", CopyDrop, <<>>),
                          SH("B", "S", CopyDrop, <<>>), SH("A", "Keeper", CopyDrop, <<>>)>>,
     !.struct_defs = <<SD(1, <<TokStruct(2), TokStruct(3)>>), SD(2, <<TokU64>>),
                       SD(4, <<TokStruct(2), TokVector(TokStruct(1))>>)>>]
SelfRefB ==
  [M0("B") EXCEPT
     !.struct_handles = <<SH("B", "S", CopyDrop, <<>>)>>,
     !.struct_defs = <<SD(1, <<TokU64>>)>>]
SelfRefStore ==
  [id \in ModuleIds |-> CASE id = "A" -> SelfRefA [] id = "B" -> SelfRefB
                           [] OTHER -> Missing]

\* the store before a publication: A names B as a friend, B depends on A
PubStore ==
  [id \in ModuleIds |->
     CASE id = "A" -> [M0("A") EXCEPT !.friends = <<"B">>]
       [] id = "B" -> [M0("B") EXCEPT !.deps = <<"A">>]
       [] id = "D" -> Missing [] OTHER -> M0("C")]

\* new versions of A and C, each with a struct its stored version lacks
NewStruct(id) ==
  [M0(id) EXCEPT !.struct_handles = <<SH(id, "New", CopyDrop, <<>>)>>,
                 !.struct_defs = <<SD(1, <<TokU64>>)>>]
FriendlyA == [NewStruct("A") EXCEPT !.friends = <<"B">>]
DependentA == [NewStruct("A") EXCEPT !.deps = <<"C">>]
PlainA == NewStruct("A")
PlainC == NewStruct("C")
FriendlyC == [NewStruct("C") EXCEPT !.friends = <<"B">>]
FriendOfBothC == [NewStruct("C") EXCEPT !.friends = <<"A", "B">>]
PlainB == NewStruct("B")
BDependsOnA == [NewStruct("B") EXCEPT !.deps = <<"A">>]
BFriendsA == [NewStruct("B") EXCEPT !.friends = <<"A">>]
NativeStructA ==
  [M0("A") EXCEPT !.deps = <<"C">>,
                  !.struct_handles = <<SH("A", "N", CopyDrop, <<>>)>>,
                  !.struct_defs = <<NativeSD(1)>>]
UnknownNativeB ==
  [M0("B") EXCEPT !.deps = <<"A">>,
                  !.function_handles = <<FH("B", "unknown", <<>>, <<>>)>>,
                  !.function_defs = <<NativeFD(1)>>]
UnverifiableA == [NewStruct("A") EXCEPT !.verifies = FALSE]

\* the bundles handed to verify_module_bundle_for_publication
Bundles ==
  { <<FriendlyA>>, <<DependentA, PlainC>>, <<PlainC, DependentA>>,
    <<PlainA, FriendlyC>>, <<UnverifiableA>>, <<FriendOfBothC, PlainA>>,
    <<PlainC, PlainA, PlainB>>, <<PlainC, UnverifiableA, PlainB>>,
    <<FriendlyA, BDependsOnA>>, <<PlainA, BFriendsA>>,
    <<NativeStructA>>, <<PlainC, UnknownNativeB>> }

\* A depends on B and names B as a friend; C is not stored
FriendDepStore ==
  [id \in ModuleIds |->
     CASE id = "A" -> [M0("A") EXCEPT !.deps = <<"B">>, !.friends = <<"B">>]
       [] id = "B" -> SoundB
       [] OTHER -> Missing]

\* A -> B -> C -> A
LongCycleStore ==
  [id \in ModuleIds |->
     CASE id = "A" -> [M0("A") EXCEPT !.deps = <<"B">>]
       [] id = "B" -> [M0("B") EXCEPT !.deps = <<"C">>]
       [] id = "D" -> Missing [] OTHER -> [M0("C") EXCEPT !.deps = <<"A">>]]

\* A names B and C as friends; B does not pass the bytecode verifier
TwoFriendsStore ==
  [id \in ModuleIds |->
     CASE id = "A" -> [M0("A") EXCEPT !.friends = <<"B", "C">>]
       [] id = "B" -> [M0("B") EXCEPT !.verifies = FALSE]
       [] id = "D" -> Missing [] OTHER -> M0("C")]

\* A declares a native function the registry resolves and names C as a
\* friend; B, which depends on A, declares a native function the registry does
\* not resolve; C declares a native struct
NativeStore ==
  [id \in ModuleIds |->
     CASE id = "A" -> [M0("A") EXCEPT !.friends = <<"C">>,
                                      !.function_handles = <<FH("A", "known", <<>>, <<>>)>>,
                                      !.function_defs = <<NativeFD(1)>>]
       [] id = "B" -> [M0("B") EXCEPT !.deps = <<"A">>,
                                      !.function_handles = <<FH("B", "unknown", <<>>, <<>>)>>,
                                      !.function_defs = <<NativeFD(1)>>]
       [] id = "D" -> Missing [] OTHER -> [M0("C") EXCEPT !.struct_handles = <<SH("C", "N", CopyDrop, <<>>)>>,
                                   !.struct_defs = <<NativeSD(1)>>]]

\* B is not stored: A depends on it and C names it as a friend
MissingDepStore ==
  [id \in ModuleIds |->
     CASE id = "A" -> [M0("A") EXCEPT !.deps = <<"B">>]
       [] id = "B" -> Missing
       [] id = "D" -> Missing [] OTHER -> [M0("C") EXCEPT !.friends = <<"B">>]]

\* A depends on B, whose bytes do not deserialize; C names a native function
\* that is not registered
CorruptStore ==
  [id \in ModuleIds |->
     CASE id = "A" -> [M0("A") EXCEPT !.deps = <<"B">>]
       [] id = "B" -> [M0("B") EXCEPT !.deserializes = FALSE]
       [] id = "D" -> Missing [] OTHER -> [M0("C") EXCEPT !.function_handles = <<FH("C", "unknown", <<>>, <<>>)>>,
                                   !.function_defs = <<NativeFD(1)>>]]

\* the diamond A -> B, A -> C, B -> D, C -> D
DiamondStore ==
  [id \in ModuleIds |->
     CASE id = "A" -> [M0("A") EXCEPT !.deps = <<"B", "C">>]
       [] id = "B" -> [M0("B") EXCEPT !.deps = <<"D">>]
       [] id = "C" -> [M0("C") EXCEPT !.deps = <<"D">>]
       [] OTHER -> M0("D")]

\* ---------------------------------------------------------------- calls
\* TypeTag
TagU64 == [k |-> "U64"]
TagSigner == [k |-> "Signer"]
TagVector(t) == [k |-> "Vector", t |-> t]
TagStruct(m, n, ps) == [k |-> "Struct", module |-> m, name |-> n, type_params |-> ps]

\* scripts: Good calls B::g; BadRef calls a function B does not declare
S0(h) ==
  [present |-> TRUE, hash |-> h, self_id |-> "script", deps |-> <<"B">>,
   struct_handles |-> <<>>, function_handles |-> <<FH("B", "g", <<>>, <<>>)>>,
   type_parameters |-> <<>>, parameters |-> <<TokU64>>,
   deserializes |-> TRUE, verifies |-> TRUE, links |-> TRUE]
GoodScript == [S0("h1") EXCEPT !.type_parameters = <<{"drop"}>>]
BadRefScript == [S0("h2") EXCEPT !.function_handles = <<FH("B", "nofn", <<>>, <<>>)>>]
\* scripts that fail in CompiledScript::deserialize, in verify_script, in the
\* load of the dependency A and in verify_script_dependencies
UndeserializableScript == [S0("h3") EXCEPT !.deserializes = FALSE]
UnverifiableScript == [S0("h4") EXCEPT !.verifies = FALSE]
DependsOnAScript == [S0("h5") EXCEPT !.deps = <<"B", "A">>]
UnlinkedScript == [S0("h6") EXCEPT !.links = FALSE]
FailingScripts ==
  { UndeserializableScript, UnverifiableScript, DependsOnAScript, UnlinkedScript,
    BadRefScript }

Call(op, id, name, tags, script) ==
  [op |-> op, id |-> id, name |-> name, tags |-> tags, script |-> script,
   modules |-> <<>>]
LoadModuleCall(id) == Call("load_module", id, "-", <<>>, Missing)
LoadFunctionCall(id, name, tags) == Call("load_function", id, name, tags, Missing)
LoadScriptCall(script, tags) == Call("load_script", "-", "-", tags, script)
GetTypeLayoutCall(tag) == Call("get_type_layout", "-", "-", <<tag>>, Missing)
InsertCall(module) ==
  [Call("insert", module.self_id, "-", <<>>, Missing) EXCEPT !.modules = <<module>>]
VerifyBundleCall(modules) ==
  [Call("verify_module_bundle_for_publication", "-", "-", <<>>, Missing)
     EXCEPT !.modules = modules]
ScriptInsertCall(hash, script) == Call("script_cache_insert", "-", hash, <<>>, script)
\* the runtime type of the call travels in tags
AbilitiesCall(ty) == Call("abilities", "-", "-", <<ty>>, Missing)
BinaryInsertCall(key, binary) == Call("binary_cache_insert", "-", key, <<>>, binary)
TypeToTypeTagCall(ty) == Call("type_to_type_tag", "-", "-", <<ty>>, Missing)
TypeToTypeLayoutCall(ty) == Call("type_to_type_layout", "-", "-", <<ty>>, Missing)

\* vector<...vector<tag>...>, n vectors deep (built by halves)
RECURSIVE TagVectors(_, _)
TagVectors(n, tag) ==
  CASE n = 0 -> tag
    [] n = 1 -> TagVector(tag)
    [] OTHER -> LET half == TagVectors(n \div 2, tag)
                IN  IF half.k = "Vector" THEN TagVectors(n - (n \div 2), half)
                    ELSE half

\* the type tags whose layouts are asked for: structs with and without type
\* arguments, and vectors nested up to the depth bound and one past it
LayoutTags ==
  { TagStruct("C", "Coin", <<>>), TagStruct("C", "Res", <<>>),
    TagStruct("C", "Box", <<TagU64>>),
    TagVectors(VALUE_DEPTH_MAX - 1, TagU64), TagVectors(VALUE_DEPTH_MAX, TagU64),
    TagVectors(VALUE_DEPTH_MAX - 1, TagStruct("C", "Coin", <<>>)) }

\* the type-argument lists tried on A::f<T: copy>(T)
TagLists ==
  { <<>>, <<TagU64>>, <<TagSigner>>, <<TagSigner, TagU64>>,
    <<TagVector(TagSigner)>>, <<TagVector(TagU64)>>,
    <<TagStruct("C", "Coin", <<>>)>>, <<TagStruct("C", "Res", <<>>)>>,
    <<TagStruct("C", "Nope", <<>>)>>,
    <<TagStruct("C", "Box", <<TagU64>>)>>, <<TagStruct("C", "Box", <<TagSigner>>)>>,
    <<TagStruct("C", "Box", <<>>)>>, <<TagStruct("C", "Coin", <<TagU64>>)>>,
    <<TagStruct("C", "Box", <<TagStruct("C", "Coin", <<>>)>>)>>,
    <<TagU64, TagStruct("C", "Nope", <<>>)>> }

\* C declares Coin (a u64), Wallet (a Coin and a vector of Coin) and Box<T>
\* (a T); loaded into the empty cache they get the indices 1, 2 and 3
TypesC ==
  [M0("C") EXCEPT
     !.struct_handles = <<SH("C", "Coin", CopyDrop, <<>>),
                          SH("C", "Wallet", CopyDrop, <<>>),
                          SH("C", "Box", CopyDrop, <<TP({}, FALSE)>>)>>,
     !.struct_defs = <<SD(1, <<TokU64>>), SD(2, <<TokStruct(1), TokVector(TokStruct(1))>>),
                       SD(3, <<TokTyParam(0)>>)>>]
TypeStore == [id \in ModuleIds |-> IF id = "C" THEN TypesC ELSE Missing]

\* the module cache after load_module(C) on TypeStore: ModuleCache::insert of
\* C into the empty cache
LoadedTypes ==
  LET pushed == push_struct_types(EmptyModuleCache, TypesC)
      typed == load_field_types(pushed, TypesC, 0).val
      added == push_functions(typed, TypesC)
  IN  BinaryCache_insert(added, "C", Module_new(TypesC, added).val)

Scenarios ==
  { [store |-> ChainStore, threads |-> Threads,
     calls |-> {LoadModuleCall("A"), LoadModuleCall("C")}],
    [store |-> CycleStore, threads |-> Threads,
     calls |-> {LoadModuleCall("A"), LoadModuleCall("B")}],
    [store |-> BadCycleStore, threads |-> Threads,
     calls |-> {LoadModuleCall("A"), LoadModuleCall("B")}],
    [store |-> BrokenStore, threads |-> Threads,
     calls |-> {LoadModuleCall("A"), LoadModuleCall("C")}],
    [store |-> FriendDepStore, threads |-> Threads,
     calls |-> {LoadModuleCall("A"), LoadModuleCall("C")}],
    [store |-> UnlinkedStore, threads |-> Threads,
     calls |-> {LoadModuleCall("A"), LoadModuleCall("B")}],
    [store |-> ChainStore, threads |-> Threads,
     calls |-> {LoadScriptCall(GoodScript, <<TagStruct("C", "Coin", <<>>)>>),
                LoadScriptCall(GoodScript, <<>>),
                LoadScriptCall(BadRefScript, <<>>), LoadModuleCall("B")}],
    [store |-> ChainStore, threads |-> {"t1"},
     calls |-> {LoadFunctionCall("A", "f", tags) : tags \in TagLists}
                 \cup {LoadFunctionCall("A", "nofn", <<>>)}],
    [store |-> ChainStore, threads |-> {"t1"},
     calls |-> {GetTypeLayoutCall(tag) : tag \in LayoutTags}],
    [store |-> SelfRefStore, threads |-> {"t1"},
     calls |-> {LoadModuleCall("A"), LoadModuleCall("B")}],
    [store |-> PubStore, threads |-> {"t1"},
     calls |-> {VerifyBundleCall(b) : b \in Bundles} \cup {LoadModuleCall("B")}],
    [store |-> MissingDepStore, threads |-> {"t1"},
     calls |-> {LoadModuleCall(id) : id \in {"A", "B", "C"}}],
    [store |-> CorruptStore, threads |-> {"t1"},
     calls |-> {LoadModuleCall(id) : id \in {"A", "B", "C"}}],
    [store |-> LongCycleStore, threads |-> {"t1"},
     calls |-> {LoadModuleCall(id) : id \in {"A", "B", "C"}}],
    [store |-> TwoFriendsStore, threads |-> {"t1"},
     calls |-> {LoadModuleCall("A"), LoadModuleCall("C")}],
    [store |-> NativeStore, threads |-> {"t1"},
     calls |-> {LoadModuleCall(id) : id \in {"A", "B", "C"}}],
    [store |-> BrokenStore, threads |-> {"t1"},
     calls |-> {LoadScriptCall(s, <<>>) : s \in FailingScripts \cup {GoodScript}}],
    [store |-> DiamondStore, threads |-> Threads,
     calls |-> {LoadModuleCall("A"), LoadModuleCall("C")}],
    [store |-> TypeStore, threads |-> Threads,
     calls |-> {GetTypeLayoutCall(TagStruct("C", "Wallet", <<>>)),
                GetTypeLayoutCall(TagStruct("C", "Box", <<TagStruct("C", "Coin", <<>>)>>))}] }

\* the modules handed to ModuleCache::insert: two modules for each of two
\* ids, a module whose field names a struct it does not declare, and one
\* whose function handle names a function that is not cached
TwoStructs(id) ==
  [M0(id) EXCEPT
     !.struct_handles = <<SH(id, "P", CopyDrop, <<>>), SH(id, "Q", {"key"}, <<>>)>>,
     !.struct_defs = <<SD(1, <<TokStruct(2)>>), SD(2, <<TokU64>>)>>,
     !.function_handles = <<FH(id, "f", <<>>, <<TokStruct(1)>>)>>,
     !.function_defs = <<FD(1)>>]
UndeclaredField(id) ==
  [M0(id) EXCEPT
     !.struct_handles = <<SH(id, "P", CopyDrop, <<>>), SH(id, "Nope", CopyDrop, <<>>)>>,
     !.struct_defs = <<SD(1, <<TokStruct(2)>>)>>]
UnresolvedCall(id) ==
  [M0(id) EXCEPT
     !.struct_handles = <<SH(id, "P", CopyDrop, <<>>)>>,
     !.struct_defs = <<SD(1, <<TokU64>>)>>,
     !.function_handles = <<FH(id, "f", <<>>, <<>>), FH("C", "nofn", <<>>, <<>>)>>,
     !.function_defs = <<FD(1)>>]
InsertedModules ==
  { NewStruct("A"), TwoStructs("A"), UndeclaredField("A"), UnresolvedCall("A"),
    NewStruct("B"), TwoStructs("B") }
InsertScenarios ==
  { [store |-> [id \in ModuleIds |-> Missing], threads |-> Threads,
     calls |-> {InsertCall(m) : m \in InsertedModules}] }

\* scripts that use no module: two of them are handed to ScriptCache::insert
\* under one hash
PlainScript(h) == [S0(h) EXCEPT !.deps = <<>>, !.function_handles = <<>>]
TwoParameters(h) == [PlainScript(h) EXCEPT !.parameters = <<TokU64, TokU64>>]
ScriptInsertScenarios ==
  { [store |-> ChainStore, threads |-> Threads,
     calls |-> {ScriptInsertCall("h1", PlainScript("h1")),
                ScriptInsertCall("h1", TwoParameters("h1")),
                ScriptInsertCall("h2", TwoParameters("h2")),
                LoadScriptCall(PlainScript("h1"), <<>>),
                LoadScriptCall(PlainScript("h2"), <<>>)}] }

\* C declares Coin (copy, drop), Res (key), Box<T: copy> (copy, drop),
\* Tagged<phantom T> (copy, drop, store) and Pair<T, phantom U> (copy, drop,
\* store, key); loaded into the empty cache they get the indices 1 to 5
AllAbilities == {"copy", "drop", "store", "key"}
AbilityStore ==
  [id \in ModuleIds |->
     IF id = "C"
       THEN [M0("C") EXCEPT
               !.struct_handles =
                  <<SH("C", "Coin", CopyDrop, <<>>),
                    SH("C", "Res", {"key"}, <<>>),
                    SH("C", "Box", CopyDrop, <<TP({"copy"}, FALSE)>>),
                    SH("C", "Tagged", PRIMITIVES, <<TP({}, TRUE)>>),
                    SH("C", "Pair", AllAbilities, <<TP({}, FALSE), TP({}, TRUE)>>)>>,
               !.struct_defs = <<SD(1, <<TokU64>>), SD(2, <<TokU64>>),
                                 SD(3, <<TokTyParam(0)>>), SD(4, <<TokU64>>),
                                 SD(5, <<TokTyParam(0)>>)>>]
       ELSE Missing]

TyU64 == [k |-> "U64"]
TySigner == [k |-> "Signer"]
TyTyParam(i) == [k |-> "TyParam", i |-> i]
TyVector(ty) == [k |-> "Vector", t |-> ty]
TyReference(ty) == [k |-> "Reference", t |-> ty]
TyMutableReference(ty) == [k |-> "MutableReference", t |-> ty]

\* the runtime types whose abilities are asked for
AbilityTypes ==
  { TyU64, [k |-> "Bool"], [k |-> "Address"], TySigner, TyTyParam(0),
    TyReference(TyU64), TyMutableReference(TySigner), TyReference(TyTyParam(0)),
    TyVector(TyU64), TyVector(TySigner), TyVector(TyVector(TySigner)),
    TyVector(TyTyParam(0)), TyVector(TyReference(TyTyParam(0))),
    TyStruct(1), TyStruct(2), TyVector(TyStruct(2)),
    TyStructInst(3, <<TyU64>>), TyStructInst(3, <<TySigner>>),
    TyStructInst(3, <<TyStruct(2)>>),
    TyStructInst(4, <<TySigner>>), TyStructInst(4, <<TyTyParam(0)>>),
    TyStructInst(5, <<TyU64, TySigner>>), TyStructInst(5, <<TySigner, TyU64>>),
    TyStructInst(5, <<TyStruct(2), TyStruct(1)>>),
    TyStructInst(3, <<TyStructInst(4, <<TySigner>>)>>),
    TyStructInst(5, <<TyVector(TyTyParam(0)), TyU64>>),
    TyStructInst(4, <<TyMutableReference(TyTyParam(0))>>) }
AbilitiesScenarios ==
  { [store |-> AbilityStore, threads |-> {"t1"},
     calls |-> {LoadModuleCall("C")} \cup {AbilitiesCall(ty) : ty \in AbilityTypes}] }

\* the runtime types whose tags and layouts are asked for
CachedTypes ==
  { TyStruct(1), TyStruct(2), TyStructInst(3, <<TyStruct(1)>>),
    TyStructInst(3, <<TyU64>>), TyVector(TyStruct(2)), TyReference(TyU64) }
TypeCacheScenarios ==
  { [store |-> TypeStore, threads |-> Threads,
     calls |-> {TypeToTypeTagCall(ty) : ty \in CachedTypes}
                 \cup {TypeToTypeLayoutCall(ty) : ty \in CachedTypes}] }

\* the keys and values handed to BinaryCache::insert: two values for each of
\* two keys
BinaryCacheScenarios ==
  { [store |-> [id \in ModuleIds |-> Missing], threads |-> Threads,
     calls |-> {BinaryInsertCall(h, s) :
                  h \in {"h1", "h2"}, s \in {PlainScript("h1"), TwoParameters("h2")}}] }

\* the first frame of an entry point
EntryFrame(c) ==
  CASE c.op = "load_module" -> Frame("load_module_internal", "check", c.id, TRUE)
    [] c.op = "load_function" ->
         [Frame("load_function", "start", c.id, TRUE)
            EXCEPT !.name = c.name, !.tags = c.tags]
    [] c.op = "load_script" ->
         [Frame("load_script", "start", "-", TRUE)
            EXCEPT !.script = c.script, !.tags = c.tags]
    [] c.op = "get_type_layout" ->
         [Frame("get_type_layout", "start", "-", TRUE) EXCEPT !.tag = c.tags[1]]
    [] c.op = "insert" ->
         [Frame("load_module_and_deps", "insert", c.id, TRUE)
            EXCEPT !.module = c.modules[1]]
    [] c.op = "verify_module_bundle_for_publication" ->
         [Frame("verify_module_bundle_for_publication", "start", "-", TRUE)
            EXCEPT !.list = c.modules]
    [] c.op = "script_cache_insert" ->
         [Frame("script_cache_insert", "start", "-", TRUE)
            EXCEPT !.name = c.name, !.script = c.script]
    [] c.op = "binary_cache_insert" ->
         [Frame("binary_cache_insert", "start", "-", TRUE)
            EXCEPT !.name = c.name, !.script = c.script]
    [] c.op = "abilities" ->
         [Frame("abilities", "start", "-", TRUE) EXCEPT !.ty = c.tags[1]]
    [] c.op = "type_to_type_tag" ->
         [Frame("type_to_type_tag_impl", "start", "-", TRUE) EXCEPT !.ty = c.tags[1]]
    [] c.op = "type_to_type_layout" ->
         [Frame("type_to_type_layout", "start", "-", TRUE) EXCEPT !.ty = c.tags[1]]

\* the handles that the finished calls equal to c have returned
PriorHandles(c) ==
  {e.res.val : e \in {x \in UNION {{th[u].log[i] : i \in DOMAIN th[u].log} : u \in Threads} :
                       x.call = c /\ x.res.ok}}

\* a thread that is not in a call starts one: Loader::load_module,
\* load_function or load_script
StartCall(t) ==
  /\ t \in scenario.threads
  /\ th[t].stack = <<>>
  /\ ncalls < MaxCalls
  /\ \E c \in scenario.calls :
       th' = [th EXCEPT ![t] =
                [@ EXCEPT !.stack = <<EntryFrame(c)>>, !.call = c, !.fetches = 0,
                          !.mutations = 0,
                          !.precached = (c.op = "load_module"
                                           /\ has_module(module_cache, c.id)),
                          !.prior = PriorHandles(c), !.script_stage = "none",
                          !.layout = NoLayout, !.installed = {}]]
  /\ ncalls' = ncalls + 1
  /\ UNCHANGED <<scenario, type_cache, module_cache, scripts, locks, insert_log,
                 linked, cyclic_passed>>

NoLock == [w |-> NoThread, r |-> {}]

Init ==
  /\ scenario \in Scenarios
  /\ module_cache = EmptyModuleCache
  /\ scripts = [id_map |-> <<>>, binaries |-> <<>>]
  /\ locks = [l \in LockNames |-> NoLock]
  /\ th = [t \in Threads |-> Idle]
  /\ ncalls = 0
  /\ insert_log = [id |-> "-", module |-> Missing, pre |-> EmptyModuleCache,
                   post |-> EmptyModuleCache, state |-> "none", res |-> Ok(0)]
  /\ linked = {}
  /\ cyclic_passed = {}
  /\ type_cache = EmptyTypeCache

Next ==
  \E t \in Threads :
    \/ StartCall(t)
    \/ LoadModuleInternal(t)
    \/ LoadModuleInternalLoaded(t)
    \/ LoadModuleInternalCyclic(t)
    \/ LoadClosure(t)
    \/ LoadClosureFriends(t)
    \/ LoadClosureDone(t)
    \/ LoadModuleAndDeps(t)
    \/ Fetch(t)
    \/ VerifyModule(t)
    \/ LoadModuleAndDepsLinked(t)
    \/ InsertBegin(t)
    \/ InsertFields(t)
    \/ InsertModule(t)
    \/ LoadDeps(t)
    \/ LoadDepsNext(t)
    \/ LinkDeps(t)
    \/ FilterFriends(t)
    \/ LoadFriends(t)
    \/ LoadFriendsNext(t)
    \/ LoadType(t)
    \/ LoadTypeVector(t)
    \/ LoadTypeResolve(t)
    \/ LoadTypeParams(t)
    \/ LoadTypeParamDone(t)
    \/ LoadFunction(t)
    \/ LoadFunctionResolve(t)
    \/ LoadFunctionTyArgs(t)
    \/ LoadFunctionTyArgDone(t)
    \/ LoadScript(t)
    \/ VerifyScript(t)
    \/ LoadScriptDeps(t)
    \/ LoadScriptDepDone(t)
    \/ LinkScript(t)
    \/ NewScript(t)
    \/ LoadScriptTyArgs(t)
    \/ LoadScriptTyArgDone(t)
    \/ GetTypeLayout(t)
    \/ TypeToTypeLayout(t)
    \/ LayoutImpl(t)
    \/ LayoutVectorDone(t)
    \/ LayoutStructDone(t)
    \/ StructLayoutLookup(t)
    \/ StructLayoutFields(t)
    \/ StructLayoutNext(t)
    \/ StructLayoutFieldDone(t)
    \/ VerifyBundle(t)
    \/ VerifyBundleNext(t)
    \/ VerifyBundleModuleDone(t)
    \/ VerifyForPublication(t)
    \/ VerifyForPublicationFriends(t)
    \/ VerifyForPublicationCyclic(t)

Spec == Init /\ [][Next]_vars

\* the loader on a scheduler that keeps running a thread that can take a
\* step: the scenarios on one thread (the layouts on the store of types only),
\* and the loads of the cyclic store and of the store with a broken module on
\* both threads
LiveScenarios ==
  { [s EXCEPT !.threads = {"t1"}] :
      s \in {x \in Scenarios :
               \A c \in x.calls : c.op # "get_type_layout" \/ x.store = TypeStore} }
    \cup { s \in Scenarios : /\ s.threads = Threads
                             /\ s.store \in {CycleStore, BrokenStore} }
LiveInit ==
  /\ scenario \in LiveScenarios
  /\ module_cache = EmptyModuleCache
  /\ scripts = [id_map |-> <<>>, binaries |-> <<>>]
  /\ locks = [l \in LockNames |-> NoLock]
  /\ th = [t \in Threads |-> Idle]
  /\ ncalls = 0
  /\ insert_log = [id |-> "-", module |-> Missing, pre |-> EmptyModuleCache,
                   post |-> EmptyModuleCache, state |-> "none", res |-> Ok(0)]
  /\ linked = {}
  /\ cyclic_passed = {}
  /\ type_cache = EmptyTypeCache
LiveSpec == LiveInit /\ [][Next]_vars /\ WF_vars(Next)

\* ModuleCache::insert on its own: the threads hand modules of their choice
\* to insert, each under the write lock
InsertInit ==
  /\ scenario \in InsertScenarios
  /\ module_cache = EmptyModuleCache
  /\ scripts = [id_map |-> <<>>, binaries |-> <<>>]
  /\ locks = [l \in LockNames |-> NoLock]
  /\ th = [t \in Threads |-> Idle]
  /\ ncalls = 0
  /\ insert_log = [id |-> "-", module |-> Missing, pre |-> EmptyModuleCache,
                   post |-> EmptyModuleCache, state |-> "none", res |-> Ok(0)]
  /\ linked = {}
  /\ cyclic_passed = {}
  /\ type_cache = EmptyTypeCache

InsertNext ==
  \E t \in Threads :
    \/ StartCall(t)
    \/ InsertBegin(t)
    \/ InsertFields(t)
    \/ InsertModule(t)

InsertSpec == InsertInit /\ [][InsertNext]_vars

\* the loader with ScriptCache::insert also called on its own, next to the
\* load_script calls of the threads
ScriptInit ==
  /\ scenario \in Scenarios \cup ScriptInsertScenarios
  /\ module_cache = EmptyModuleCache
  /\ scripts = [id_map |-> <<>>, binaries |-> <<>>]
  /\ locks = [l \in LockNames |-> NoLock]
  /\ th = [t \in Threads |-> Idle]
  /\ ncalls = 0
  /\ insert_log = [id |-> "-", module |-> Missing, pre |-> EmptyModuleCache,
                   post |-> EmptyModuleCache, state |-> "none", res |-> Ok(0)]
  /\ linked = {}
  /\ cyclic_passed = {}
  /\ type_cache = EmptyTypeCache

ScriptNext ==
  \/ Next
  \/ \E t \in Threads : ScriptCacheInsert(t)

ScriptSpec == ScriptInit /\ [][ScriptNext]_vars

\* the loader with Loader::abilities also called on its own
AbilitiesInit ==
  /\ scenario \in Scenarios \cup AbilitiesScenarios
  /\ module_cache = EmptyModuleCache
  /\ scripts = [id_map |-> <<>>, binaries |-> <<>>]
  /\ locks = [l \in LockNames |-> NoLock]
  /\ th = [t \in Threads |-> Idle]
  /\ ncalls = 0
  /\ insert_log = [id |-> "-", module |-> Missing, pre |-> EmptyModuleCache,
                   post |-> EmptyModuleCache, state |-> "none", res |-> Ok(0)]
  /\ linked = {}
  /\ cyclic_passed = {}
  /\ type_cache = EmptyTypeCache

AbilitiesNext ==
  \/ Next
  \/ \E t \in Threads : AbilitiesOf(t)

AbilitiesSpec == AbilitiesInit /\ [][AbilitiesNext]_vars

\* the loader after load_module(C) on TypeStore has returned, with
\* type_to_type_tag and type_to_type_layout called on runtime types of C by
\* the threads; the other scenarios start from the empty loader
TypeCacheInit ==
  /\ scenario \in Scenarios \cup TypeCacheScenarios
  /\ module_cache = IF scenario \in TypeCacheScenarios THEN LoadedTypes
                    ELSE EmptyModuleCache
  /\ scripts = [id_map |-> <<>>, binaries |-> <<>>]
  /\ locks = [l \in LockNames |-> NoLock]
  /\ th = [t \in Threads |-> Idle]
  /\ ncalls = 0
  /\ insert_log = IF scenario \in TypeCacheScenarios
                    THEN [id |-> "C", module |-> TypesC, pre |-> EmptyModuleCache,
                          post |-> LoadedTypes, state |-> "done", res |-> Ok(1)]
                    ELSE [id |-> "-", module |-> Missing, pre |-> EmptyModuleCache,
                          post |-> EmptyModuleCache, state |-> "none", res |-> Ok(0)]
  /\ linked = IF scenario \in TypeCacheScenarios THEN {"C"} ELSE {}
  /\ cyclic_passed = IF scenario \in TypeCacheScenarios THEN {"C"} ELSE {}
  /\ type_cache = EmptyTypeCache

TypeCacheNext ==
  \/ Next
  \/ \E t \in Threads :
       \/ TypeToTypeLayoutOf(t)
       \/ TypeToTypeTag(t)
       \/ TagVectorDone(t)
       \/ TagStructDone(t)
       \/ StructTagLookup(t)
       \/ StructTagArgs(t)
       \/ StructTagArgDone(t)
       \/ StructTagStore(t)

TypeCacheSpec == TypeCacheInit /\ [][TypeCacheNext]_vars

\* the loader with BinaryCache::insert also called on its own
BinaryCacheInit ==
  /\ scenario \in Scenarios \cup BinaryCacheScenarios
  /\ module_cache = EmptyModuleCache
  /\ scripts = [id_map |-> <<>>, binaries |-> <<>>]
  /\ locks = [l \in LockNames |-> NoLock]
  /\ th = [t \in Threads |-> Idle]
  /\ ncalls = 0
  /\ insert_log = [id |-> "-", module |-> Missing, pre |-> EmptyModuleCache,
                   post |-> EmptyModuleCache, state |-> "none", res |-> Ok(0)]
  /\ linked = {}
  /\ cyclic_passed = {}
  /\ type_cache = EmptyTypeCache

BinaryCacheNext ==
  \/ Next
  \/ \E t \in Threads : BinaryCacheInsert(t)

BinaryCacheSpec == BinaryCacheInit /\ [][BinaryCacheNext]_vars

\* ---------------------------------------------------------------- properties
\* an insert that went past the cached check, finished, and failed
InsertFailed == insert_log.state = "done" /\ ~insert_log.res.ok

\* C1: ModuleCache::insert is transactional.  When insert returns an error
\* (load_field_types in add_module failed, or Module::new failed), the struct
\* vector, the function vector and the module map are exactly what they were
\* before the call, and the module id is not in the cache.
C1_InsertTransactional ==
  InsertFailed =>
    /\ insert_log.post.structs = insert_log.pre.structs
    /\ insert_log.post.functions = insert_log.pre.functions
    /\ insert_log.post.binaries = insert_log.pre.binaries
    /\ insert_log.post.id_map = insert_log.pre.id_map
    /\ ~has_module(insert_log.post, insert_log.id)

\* an insert into a cache that already holds structs and functions failed in
\* Module::new, after add_module had pushed structs and functions
C1_Witness ==
  /\ InsertFailed
  /\ insert_log.res.status = "FUNCTION_RESOLUTION_FAILURE"
  /\ insert_log.pre.structs # <<>>
  /\ insert_log.pre.functions # <<>>
  /\ insert_log.module.struct_defs # <<>>
  /\ insert_log.module.function_defs # <<>>

\* the struct and function indices a cached module holds
HeldStructs(cache, h) == Range(cache.binaries[h].struct_refs)
HeldFunctions(cache, h) == Range(cache.binaries[h].function_refs)

\* C2: index stability.  In every step of every thread, each module that is
\* cached before the step is cached after it under the same handle, and each
\* struct index and function index it holds still resolves to an entry with
\* the same declaring module and name: no truncation of a failed publish
\* removes or rewrites an entry of a cached module.
C2_IndexStability ==
  [][\A id \in DOMAIN module_cache.id_map :
       LET h == module_cache.id_map[id]
       IN  /\ id \in DOMAIN module_cache'.id_map
           /\ module_cache'.id_map[id] = h
           /\ module_cache'.binaries[h] = module_cache.binaries[h]
           /\ \A i \in HeldStructs(module_cache, h) :
                /\ i \in DOMAIN module_cache'.structs
                /\ module_cache'.structs[i].module = module_cache.structs[i].module
                /\ module_cache'.structs[i].name = module_cache.structs[i].name
           /\ \A i \in HeldFunctions(module_cache, h) :
                /\ i \in DOMAIN module_cache'.functions
                /\ module_cache'.functions[i].module = module_cache.functions[i].module
                /\ module_cache'.functions[i].name = module_cache.functions[i].name]_vars

\* a publish failed in load_field_types and was truncated while a cached
\* module held struct and function indices
C2_Witness ==
  /\ InsertFailed
  /\ insert_log.res.status = "TYPE_RESOLUTION_FAILURE"
  /\ \E id \in DOMAIN insert_log.pre.id_map :
       /\ HeldStructs(insert_log.pre, insert_log.pre.id_map[id]) # {}
       /\ HeldFunctions(insert_log.pre, insert_log.pre.id_map[id]) # {}
  /\ module_cache = insert_log.post

\* the finished calls of a thread
Finished(t) == {th[t].log[i] : i \in DOMAIN th[t].log}
LoadModuleOk(e, id) == e.call.op = "load_module" /\ e.call.id = id /\ e.res.ok
CountOf(seq, id) == Cardinality({i \in DOMAIN seq : seq[i].module = id})

\* C3: publication race.  However the load_module calls of the threads
\* interleave, the module cache holds at most one entry for each id (exactly
\* one once it is cached), the structs and functions of a cached module are
\* in the global vectors exactly once, and every load_module(id) that
\* returned Ok returned the one handle the module map has for id.
C3_PublicationRace ==
  \A id \in ModuleIds :
    /\ Cardinality({h \in DOMAIN module_cache.binaries :
                      module_cache.binaries[h].id = id})
         = IF has_module(module_cache, id) THEN 1 ELSE 0
    /\ has_module(module_cache, id) =>
         /\ CountOf(module_cache.structs, id) = Len(Store[id].struct_defs)
         /\ CountOf(module_cache.functions, id) = Len(Store[id].function_defs)
    /\ \A t \in Threads : \A e \in Finished(t) :
         LoadModuleOk(e, id) =>
           has_module(module_cache, id) /\ e.res.val = module_cache.id_map[id]

\* two threads raced: both called load_module(A) while A was not cached and
\* both fetched it; one published it, the other published nothing, and both
\* returned Ok
C3_Witness ==
  \E t, u \in Threads :
    /\ t # u
    /\ \E e \in Finished(t) :
         LoadModuleOk(e, "A") /\ ~e.precached /\ e.fetches > 0 /\ e.mutations > 0
    /\ \E e \in Finished(u) :
         LoadModuleOk(e, "A") /\ ~e.precached /\ e.fetches > 0 /\ e.mutations = 0
    /\ Store["A"].struct_defs # <<>>

\* C4: load_module is idempotent.  A load_module(id) that starts after a
\* load_module(id) has returned Ok returns Ok with the same handle, fetches
\* nothing from the data store, and never gets past the cached check of
\* ModuleCache::insert, so it changes neither the module map nor the struct
\* and function vectors.
C4_LoadModuleIdempotent ==
  \A t \in Threads : \A e \in Finished(t) :
    (e.call.op = "load_module" /\ e.prior # {}) =>
      /\ e.res.ok
      /\ e.prior = {e.res.val}
      /\ e.fetches = 0
      /\ e.mutations = 0

\* a second load_module(A) has finished, the first having returned Ok after
\* fetching and publishing A
C4_Witness ==
  \E t \in Threads : \E i, j \in DOMAIN th[t].log :
    /\ i < j
    /\ LoadModuleOk(th[t].log[i], "A") /\ th[t].log[i].mutations > 0
    /\ th[t].log[j].call = th[t].log[i].call
    /\ th[t].log[j].prior # {}
    /\ Store["A"].deps # <<>>

\* the dependency relation of the data store
DepSucc == [x \in ModuleIds |-> IF Store[x].present THEN Range(Store[x].deps) ELSE {}]
DepsOf(id) == Reachable(DepSucc[id], DepSucc)
OnCycle(id) == id \in DepsOf(id)

\* every struct and function handle of m names something its module declares
Declares(m, kind, name) ==
  /\ m.present
  /\ \/ kind = "struct" /\ \E i \in DOMAIN m.struct_defs :
            m.struct_handles[m.struct_defs[i].struct_handle].name = name
     \/ kind = "function" /\ \E i \in DOMAIN m.function_defs :
            m.function_handles[m.function_defs[i].function].name = name
Resolves(m) ==
  /\ \A i \in DOMAIN m.struct_handles :
       Declares(Store[m.struct_handles[i].module], "struct", m.struct_handles[i].name)
  /\ \A i \in DOMAIN m.function_handles :
       Declares(Store[m.function_handles[i].module], "function", m.function_handles[i].name)

\* every module the traversal from id can reach is stored and passes the
\* deserializer, the bytecode verifier and the native check, and those not on
\* a cycle also pass the linking check and resolve their handles
TraversalSound(id) ==
  \A x \in DepsOf(id) :
    /\ Store[x].present
    /\ Store[x].deserializes /\ Store[x].verifies /\ check_natives(Store[x]).ok
    /\ ~OnCycle(x) => Store[x].links /\ Resolves(Store[x])

CycleCall(e) == e.call.op = "load_module" /\ OnCycle(e.call.id)

RelSucc ==
  [x \in ModuleIds |->
     IF Store[x].present THEN Range(Store[x].deps) \cup Range(Store[x].friends) ELSE {}]
CyclicChecked(id) == \E x \in cyclic_passed : id \in {x} \cup Reachable(RelSucc[x], RelSucc)

\* C6 as stated: a module is visible in the module cache only after its
\* linking check and a cyclic relation check covering it have passed.
C6_ChecksBeforePublication ==
  \A id \in ModuleIds :
    has_module(module_cache, id) => id \in linked /\ CyclicChecked(id)

\* the frames of a thread
Frames(t) == {th[t].stack[k] : k \in DOMAIN th[t].stack}

\* C6: pipeline order.  The linking check of a module precedes its
\* publication.  The friend closure and the cyclic relation check follow it:
\* a thread loads the friends of a closure, or runs the cyclic checker on a
\* module, only when that module is already in the cache, and a module whose
\* cyclic check has passed is cached.
C6_PipelineOrder ==
  /\ \A id \in ModuleIds : has_module(module_cache, id) => id \in linked
  /\ \A id \in cyclic_passed : has_module(module_cache, id)
  /\ \A t \in Threads : \A f \in Frames(t) :
       /\ (f.fn = "load_closure" /\ f.pc = "friends_done") => has_module(module_cache, f.id)
       /\ (f.fn = "load_module_internal" /\ f.pc = "cyclic") => has_module(module_cache, f.id)

\* load_module(A) has returned the error of the cyclic relation check, and A,
\* published before the check, is visible in the cache
C6_Witness ==
  /\ \E t \in Threads : \E e \in Finished(t) :
       /\ e.call.op = "load_module" /\ e.call.id = "A"
       /\ e.res = Err("UNEXPECTED_VERIFIER_ERROR")
       /\ e.mutations > 0
  /\ has_module(module_cache, "A")
  /\ "A" \in linked
  /\ "A" \notin cyclic_passed

\* a thread is fetching bytes from the data store / is inside a call of the
\* bytecode verifier (module or script verification, or a linking check)
Fetching(t) == Running(t, "load_module_and_deps", "fetch")
Verifying(t) ==
  \/ Running(t, "load_module_and_deps", "verify")
  \/ Running(t, "load_deps", "link")
  \/ Running(t, "load_script", "verify")
  \/ Running(t, "load_script", "link")
InLoadScript(t) == th[t].stack # <<>> /\ th[t].stack[1].fn = "load_script"

\* C7: no lock is held across a data-store fetch.  A thread that is executing
\* data_store.load_module holds none of the three cache locks.
C7_NoLockAcrossFetch ==
  \A t \in Threads : Fetching(t) => LocksHeld(t) = {}

\* a thread inside load_script fetches the bytes of a dependency while it
\* holds the script-cache write lock
C7_FetchUnderScriptLock ==
  \E t \in Threads :
    InLoadScript(t) /\ Fetching(t) /\ locks["scripts"].w = t

\* C8: bytecode verification runs outside any cache lock.  A thread that is
\* running the verifier on a module or a script, or a linking check, holds
\* none of the three cache locks.
C8_VerifyOutsideLocks ==
  \A t \in Threads : Verifying(t) => LocksHeld(t) = {}

\* a thread verifies a script while it holds the script-cache write lock,
\* and the other thread waits for that lock at the start of load_script
C8_VerifyUnderScriptLock ==
  \E t, u \in Threads :
    /\ t # u
    /\ Running(t, "load_script", "verify") /\ locks["scripts"].w = t
    /\ Running(u, "load_script", "start")

\* the struct indices reachable through the cache: those the name maps and
\* the handle tables of the cached modules hold
ReachableStructs ==
  UNION { HeldStructs(module_cache, h)
            \cup {module_cache.binaries[h].struct_map[n] :
                    n \in DOMAIN module_cache.binaries[h].struct_map} :
          h \in DOMAIN module_cache.binaries }

\* the field list the declaration of the struct at index i translates to
FinalFields(i) ==
  LET st == module_cache.structs[i]
      m == module_at(module_cache, st.module)
      decl == module_cache.binaries[m].module
  IN  make_types(module_cache, decl, decl.struct_defs[st.struct_def].fields, FALSE)

\* C9: field initialization precedes visibility.  Whenever the module-cache
\* write lock is not held, every struct reachable through the cache belongs
\* to a cached module and carries the field list its declaration translates
\* to: the empty list it was appended with is never observable.
C9_FieldsBeforeVisibility ==
  locks["module_cache"].w = NoThread =>
    \A i \in ReachableStructs :
      /\ i \in DOMAIN module_cache.structs
      /\ has_module(module_cache, module_cache.structs[i].module)
      /\ FinalFields(i) = Ok(module_cache.structs[i].fields)

\* readers can see A::Outer, whose one field is the struct A::Inner of the
\* same module, with the field installed
C9_Witness ==
  /\ locks["module_cache"].w = NoThread
  /\ \E i \in ReachableStructs :
       /\ module_cache.structs[i].module = "A"
       /\ module_cache.structs[i].name = "Outer"
       /\ Len(module_cache.structs[i].fields) = 1
       /\ module_cache.structs[i].fields[1].k = "Struct"

\* the step in which load_function, with the function resolved, returns:
\* either a load_type failed or verify_ty_args gave its verdict
LoadFunctionReturns(t) ==
  /\ Len(th[t].stack) = 1
  /\ Top(th[t]).fn = "load_function"
  /\ Top(th[t]).pc \in {"ty_args", "ty_arg_done"}
  /\ th'[t].stack = <<>>

\* some declared constraint is not a subset of the abilities of the type
\* load_type returned for the tag at the same index
ConstraintViolated(constraints, tys) ==
  \E i \in DOMAIN constraints \cap DOMAIN tys :
    LET a == abilities(module_cache, tys[i])
    IN  a.ok /\ ~(constraints[i] \subseteq a.val)

NotSatisfied == Err("CONSTRAINT_NOT_SATISFIED")

\* C10 as stated: load_function returns ConstraintNotSatisfied exactly when
\* some declared constraint i is not a subset of the abilities of the type
\* loaded for tag i.
C10_ExactlyWhenViolated ==
  [][\A t \in Threads :
       LoadFunctionReturns(t) =>
         LET f == Top(th[t])
         IN  (th'[t].ret = NotSatisfied)
               <=> ConstraintViolated(f.func.type_parameters, f.acc)]_vars

\* C10: ability soundness.  load_function, with the function resolved,
\* returns ConstraintNotSatisfied exactly when either the load_type of a tag,
\* all earlier tags having loaded, itself fails with ConstraintNotSatisfied,
\* or every tag loads, there are as many tags as type parameters, and some
\* declared constraint i is not a subset of the abilities of the type loaded
\* for tag i.
C10_AbilitySoundness ==
  [][\A t \in Threads :
       LoadFunctionReturns(t) =>
         LET f == Top(th[t])
         IN  (th'[t].ret = NotSatisfied)
               <=> \/ f.pc = "ty_arg_done" /\ th[t].ret = NotSatisfied
                   \/ /\ f.pc = "ty_args"
                      /\ Len(f.acc) = Len(f.tags)
                      /\ Len(f.acc) = Len(f.func.type_parameters)
                      /\ ConstraintViolated(f.func.type_parameters, f.acc)]_vars

\* A::f<T: copy> was called with the one tag C::Res, which loads and has the
\* ability key only, and the call returned ConstraintNotSatisfied
C10_Witness ==
  \E t \in Threads : \E e \in Finished(t) :
    /\ e.call = LoadFunctionCall("A", "f", <<TagStruct("C", "Res", <<>>)>>)
    /\ e.res = NotSatisfied
    /\ has_module(module_cache, "C")

Mismatch == Err("NUMBER_OF_TYPE_ARGUMENTS_MISMATCH")

\* C11 as stated: load_function returns NumberOfTypeArgumentsMismatch
\* exactly when the number of tags differs from the number of the function's
\* type parameters.
C11_ExactlyWhenCountsDiffer ==
  [][\A t \in Threads :
       LoadFunctionReturns(t) =>
         LET f == Top(th[t])
         IN  (th'[t].ret = Mismatch)
               <=> Len(f.tags) # Len(f.func.type_parameters)]_vars

\* C11: arity.  load_function, with the function resolved, returns
\* NumberOfTypeArgumentsMismatch exactly when either the load_type of a tag,
\* all earlier tags having loaded, itself fails with that status (a struct
\* tag carries a number of type arguments other than the struct declares),
\* or every tag loads and the number of tags differs from the number of the
\* function's type parameters.
C11_Arity ==
  [][\A t \in Threads :
       LoadFunctionReturns(t) =>
         LET f == Top(th[t])
         IN  (th'[t].ret = Mismatch)
               <=> \/ f.pc = "ty_arg_done" /\ th[t].ret = Mismatch
                   \/ /\ f.pc = "ty_args"
                      /\ Len(f.acc) = Len(f.tags)
                      /\ Len(f.tags) # Len(f.func.type_parameters)]_vars

\* A::f, which has one type parameter, was called with two tags that both
\* load, and returned NumberOfTypeArgumentsMismatch
C11_Witness ==
  \E t \in Threads : \E e \in Finished(t) :
    /\ e.call = LoadFunctionCall("A", "f", <<TagSigner, TagU64>>)
    /\ e.res = Mismatch
    /\ Len(module_cache.functions[
             module_cache.binaries[module_cache.id_map["A"]].function_map["f"]
           ].type_parameters) = 1

\* the step in which load_script, holding the script-cache lock, has looked
\* the hash of its bytes up
ScriptLookup(t) ==
  /\ Running(t, "load_script", "start")
  /\ th'[t] # th[t]
\* the finished calls of one entry point
FinishedOf(op) ==
  UNION {{th[u].log[i] : i \in {j \in DOMAIN th[u].log : th[u].log[j].call.op = op}} :
           u \in Threads}

ScriptCalls == FinishedOf("load_script")
SameHash(e, script) == Sha3_256(e.call.script) = Sha3_256(script)

\* C12 as stated: a load_script is served from the script cache exactly
\* when a load_script of bytes with the same hash has returned Ok before.
C12_ServedIffPriorSuccess ==
  [][\A t \in Threads :
       ScriptLookup(t) =>
         ((th'[t].script_stage = "hit")
            <=> \E e \in ScriptCalls : SameHash(e, Top(th[t]).script) /\ e.res.ok)]_vars

\* C12: script hashing.  A load_script is served from the script cache
\* (it deserializes, verifies and constructs nothing) exactly when an earlier
\* load_script of bytes with the same hash got as far as inserting the
\* script, whether or not that call then returned Ok; a call that returned
\* Ok has inserted the script or was itself served from the cache.
C12_ScriptHashing ==
  [][/\ \A t \in Threads :
          ScriptLookup(t) =>
            ((th'[t].script_stage = "hit")
               <=> \E e \in ScriptCalls :
                     SameHash(e, Top(th[t]).script) /\ e.script_stage = "inserted")
     /\ \A e \in ScriptCalls : e.res.ok => e.script_stage \in {"hit", "inserted"}]_vars

\* a load_script was served from the cache although the only earlier call
\* with these bytes returned an error: it had inserted the script and then
\* failed on its type arguments
C12_Witness ==
  \E t \in Threads : \E i, j \in DOMAIN th[t].log :
    /\ i < j
    /\ th[t].log[i].call.op = "load_script"
    /\ th[t].log[j].call.op = "load_script"
    /\ SameHash(th[t].log[i], th[t].log[j].call.script)
    /\ th[t].log[i].script_stage = "inserted" /\ ~th[t].log[i].res.ok
    /\ th[t].log[j].script_stage = "hit"
    /\ \A u \in Threads \ {t} : th[u].log = <<>>

\* the finished get_type_layout calls that reached type_to_type_layout
LayoutCalls == {e \in FinishedOf("get_type_layout") : e.layout.ran}

DepthReached == Err("VM_MAX_VALUE_DEPTH_REACHED")

SetMax(S) == IF S = {} THEN 0 ELSE CHOOSE x \in S : \A y \in S : y <= x

\* ty with n vector levels taken off (fewer when ty has fewer)
RECURSIVE Strip(_, _)
Strip(ty, n) ==
  CASE n = 0 -> ty
    [] n = 1 -> IF ty.k = "Vector" THEN ty.t ELSE ty
    [] OTHER -> LET half == Strip(ty, n \div 2)
                IN  IF half.k = "Vector" THEN Strip(half, n - (n \div 2)) ELSE half

\* the number of vector levels at the top of ty, up to VALUE_DEPTH_MAX + 1
VectorLevels(ty) ==
  CHOOSE n \in 0..(VALUE_DEPTH_MAX + 1) :
    /\ n <= VALUE_DEPTH_MAX => Strip(ty, n).k # "Vector"
    /\ \A m \in 0..(n - 1) : Strip(ty, m).k = "Vector"

\* the nesting depth of the layout of a runtime type: 1 at entry, one more
\* for the element of a vector and for the fields of a struct
RECURSIVE LayoutDepth(_)
LayoutDepth(ty) ==
  LET n == VectorLevels(ty)
      base == Strip(ty, n)
  IN  IF base.k \in {"Struct", "StructInst"}
        THEN LET fs == subst_fields(module_cache.structs[base.idx].fields,
                                    IF base.k = "Struct" THEN <<>> ELSE base.tys).val
             IN  n + 1 + SetMax({LayoutDepth(fs[i]) : i \in DOMAIN fs})
        ELSE n + 1

\* C13: Depth bound.  For every runtime type and every state of the type
\* cache, type_to_type_layout returns VM_MAX_VALUE_DEPTH_REACHED exactly when
\* the nesting depth of the layout of the type exceeds VALUE_DEPTH_MAX.
C13_DepthBound ==
  \A e \in LayoutCalls :
    (e.res = DepthReached) <=> LayoutDepth(e.layout.ty) > VALUE_DEPTH_MAX

\* a layout deeper than VALUE_DEPTH_MAX has been returned: the struct at the
\* bottom of the type was found in the type cache
C13_CachedStructPastBound ==
  \E e \in LayoutCalls :
    /\ e.res.ok
    /\ LayoutDepth(e.layout.ty) > VALUE_DEPTH_MAX
    /\ e.layout.pre # {}

StructKinds == {"Struct", "StructInst"}
KeyOf(ty) == <<ty.idx, IF ty.k = "Struct" THEN <<>> ELSE ty.tys>>

\* C14: Layout caching round trip.  When type_to_type_layout of a struct
\* type has succeeded, a second call on the same type returns the same
\* layout, finds the layout of the struct in the type cache and computes no
\* field layout.
C14_LayoutRoundTrip ==
  \A t \in Threads : \A i, j \in DOMAIN th[t].log :
    LET a == th[t].log[i]
        b == th[t].log[j]
    IN  (/\ i < j
         /\ a.call.op = "get_type_layout" /\ b.call = a.call
         /\ a.layout.ran /\ a.layout.ty.k \in StructKinds
         /\ a.res.ok)
        => /\ b.layout.ran /\ b.layout.ty = a.layout.ty
           /\ b.res = a.res
           /\ cached_layout(b.layout.pre, KeyOf(b.layout.ty)[1],
                            KeyOf(b.layout.ty)[2]) # {}
           /\ b.layout.computed = {}

\* the layout of C::Box<u64> has been asked for twice
C14_Witness ==
  \E t \in Threads :
    /\ Len(th[t].log) = 2
    /\ th[t].log[1].call = GetTypeLayoutCall(TagStruct("C", "Box", <<TagU64>>))
    /\ th[t].log[2].call = th[t].log[1].call
    /\ th[t].log[1].res.ok /\ th[t].log[2].res.ok
    /\ th[t].log[1].layout.computed # {}
    /\ th[t].log[2].layout.ty.k = "StructInst"


\* load_field_types of the publishing module has succeeded in this step
FieldsInstalled(t) ==
  /\ Running(t, "load_module_and_deps", "insert_fields")
  /\ th'[t] # th[t]
  /\ load_field_types(module_cache, Top(th[t]).module, Top(th[t]).starting_idx).ok

\* the position of the definition of the struct called name among the
\* definitions of module (0 when there is none)
DefinitionOf(module, name) ==
  LET ds == {k \in DOMAIN module.struct_defs :
               module.struct_handles[module.struct_defs[k].struct_handle].name = name}
  IN  IF ds = {} THEN 0 ELSE CHOOSE k \in ds : TRUE

\* C15: Self-reference resolution.  A field of a struct of the publishing
\* module whose type is a struct S of that same module gets Type::Struct(i),
\* where i is the index of S inside the block of struct types that this
\* publish has appended, whether S is declared before or after the struct
\* that names it.
C15_SelfReference ==
  [][\A t \in Threads : FieldsInstalled(t) =>
       LET f == Top(th[t])
           m == f.module
       IN  \A k \in DOMAIN m.struct_defs : \A j \in DOMAIN m.struct_defs[k].fields :
             LET tok == m.struct_defs[k].fields[j]
                 ty == module_cache'.structs[f.starting_idx + k].fields[j]
             IN  (tok.k = "Struct" /\ m.struct_handles[tok.sh].module = m.self_id)
                 => /\ ty.k = "Struct"
                    /\ ty.idx > f.starting_idx
                    /\ ty.idx <= f.starting_idx + Len(m.struct_defs)
                    /\ ty.idx = f.starting_idx
                                  + DefinitionOf(m, m.struct_handles[tok.sh].name)
                    /\ module_cache'.structs[ty.idx].module = m.self_id
                    /\ module_cache'.structs[ty.idx].name = m.struct_handles[tok.sh].name]_vars

\* A is cached after B: Holder names A::S, declared after it, and Keeper
\* names A::S, declared before it; both fields hold the index of A::S, which
\* is not the index of B::S
C15_Witness ==
  /\ has_module(module_cache, "A")
  /\ \E h, k, a, b \in DOMAIN module_cache.structs :
       /\ b < a /\ a > h /\ a < k
       /\ module_cache.structs[b].module = "B" /\ module_cache.structs[b].name = "S"
       /\ module_cache.structs[a].module = "A" /\ module_cache.structs[a].name = "S"
       /\ module_cache.structs[h].module = "A" /\ module_cache.structs[h].name = "Holder"
       /\ module_cache.structs[k].module = "A" /\ module_cache.structs[k].name = "Keeper"
       /\ module_cache.structs[h].fields = <<TyStruct(a), TyStruct(b)>>
       /\ module_cache.structs[k].fields[1] = TyStruct(a)


PublicationCalls == FinishedOf("verify_module_bundle_for_publication")
BundleIds(c) == {c.modules[i].self_id : i \in DOMAIN c.modules}
CachedModule(id) == module_cache.binaries[module_cache.id_map[id]].module

\* C16: verify_module_bundle_for_publication does not install the modules of
\* the bundle.  As claimed: after the call has returned, with Ok or with an
\* error, no module id of the bundle has been added to the module cache by
\* that call, also when the data store holds an older version under the id.
C16_NoBundleIdInstalled ==
  \A e \in PublicationCalls : e.installed \cap BundleIds(e.call) = {}

\* C16, amended: the call never installs a module of the bundle.  Every
\* cached module is the module the data store holds under its id; an id of
\* the bundle that the call has added to the cache is an id the data store
\* holds, and the module cached under it is the stored one, not the bundle's.
C16_BundleNotInstalled ==
  /\ \A id \in ModuleIds :
       has_module(module_cache, id) => Store[id].present /\ CachedModule(id) = Store[id]
  /\ \A e \in PublicationCalls :
       /\ \A id \in e.installed : Store[id].present
       /\ \A i \in DOMAIN e.call.modules :
            has_module(module_cache, e.call.modules[i].self_id)
              => CachedModule(e.call.modules[i].self_id) # e.call.modules[i]

\* the bundle <<A>>, A naming its friend B, has been verified: the call has
\* cached the stored A, on which B depends
C16_Witness ==
  \E e \in PublicationCalls :
    /\ e.res.ok
    /\ e.call.modules = <<FriendlyA>>
    /\ "A" \in e.installed
    /\ CachedModule("A") = Store["A"]
    /\ CachedModule("A") # FriendlyA

Quiescent == \A t \in Threads : th[t].stack = <<>>

\* C17: Dependency closure of the cache.  After any sequence of calls of
\* the entry points, every cached module has all its immediate dependencies
\* cached.
C17_DependencyClosure ==
  Quiescent =>
    \A id \in ModuleIds :
      has_module(module_cache, id)
        => \A d \in Range(CachedModule(id).deps) : has_module(module_cache, d)

\* after the bundle <<A, C>>, C naming its friend B: B is cached and A, on
\* which B depends, is not
C17_DependencyInBundleOnly ==
  /\ Quiescent
  /\ \E e \in PublicationCalls : e.res.ok /\ e.installed = {"B"}
  /\ has_module(module_cache, "B")
  /\ "A" \in Range(CachedModule("B").deps)
  /\ ~has_module(module_cache, "A")


\* ModuleCache::insert is entered by thread t with a cached id
InsertOfCached(t) ==
  /\ Running(t, "load_module_and_deps", "insert")
  /\ th'[t] # th[t]
  /\ has_module(module_cache, Top(th[t]).id)

\* C18: Publication is idempotent.  ModuleCache::insert with an id that is
\* already cached returns Ok with the cached handle and leaves the module
\* map, the struct vector and the function vector as they were, whatever
\* compiled module it is handed.
C18_InsertIdempotent ==
  [][\A t \in Threads : InsertOfCached(t) =>
       /\ module_cache' = module_cache
       /\ th'[t].ret = Ok(module_cache.id_map[Top(th[t]).id])]_vars

\* an insert handed a module that differs from the one cached under its id
\* has returned the cached handle
C18_Witness ==
  \E t \in Threads : \E i \in DOMAIN th[t].log :
    LET e == th[t].log[i]
    IN  /\ e.call.op = "insert"
        /\ e.mutations = 0
        /\ has_module(module_cache, e.call.id)
        /\ e.res = Ok(module_cache.id_map[e.call.id])
        /\ CachedModule(e.call.id) # e.call.modules[1]


\* ScriptCache::insert is entered by thread t with a hash that is present
ScriptInsertOfPresent(t) ==
  /\ Running(t, "script_cache_insert", "start")
  /\ th'[t] # th[t]
  /\ Top(th[t]).name \in DOMAIN scripts.id_map

\* every script in the cache is the one its hash is mapped to
OneEntryPerHash(cache) ==
  /\ Len(cache.binaries) = Cardinality(DOMAIN cache.id_map)
  /\ \A h \in DOMAIN cache.id_map :
       /\ cache.id_map[h] \in DOMAIN cache.binaries
       /\ cache.binaries[cache.id_map[h]].main.scope = h

\* C19: Script cache never overwrites.  ScriptCache::insert on a hash that is
\* present returns the cached entry point, parameter types and return types
\* and leaves the cache as it was; through every step of load_script and of
\* insert, by any thread, a hash keeps the script it was first given and the
\* cache holds one script per hash.
C19_NeverOverwrites ==
  [][/\ \A t \in Threads : ScriptInsertOfPresent(t) =>
          /\ scripts' = scripts
          /\ th'[t].ret = Ok(ScriptCache_get(scripts, Top(th[t]).name))
     /\ \A h \in DOMAIN scripts.id_map :
          /\ h \in DOMAIN scripts'.id_map
          /\ ScriptCache_get(scripts', h) = ScriptCache_get(scripts, h)
          /\ scripts'.binaries[scripts'.id_map[h]] = scripts.binaries[scripts.id_map[h]]
     /\ OneEntryPerHash(scripts')]_vars

\* an insert handed a script that differs from the one cached under its hash
\* has returned the cached triple, the script being one a load_script cached
C19_Witness ==
  \E t \in Threads : \E i \in DOMAIN th[t].log :
    LET e == th[t].log[i]
    IN  /\ e.call.op = "script_cache_insert"
        /\ e.call.name \in DOMAIN scripts.id_map
        /\ scripts.binaries[scripts.id_map[e.call.name]].script # e.call.script
        /\ e.res = Ok(ScriptCache_get(scripts, e.call.name))
        /\ \E u \in Threads : \E j \in DOMAIN th[u].log :
             /\ th[u].log[j].call.op = "load_script"
             /\ th[u].log[j].script_stage = "inserted"
             /\ Sha3_256(th[u].log[j].call.script) = e.call.name


\* StatusType::InvariantViolation, the two statuses an upgrade gives
UpgradedStatuses == {"UNEXPECTED_VERIFIER_ERROR", "UNEXPECTED_DESERIALIZATION_ERROR"}

\* thread t takes a step of the frame fn at pc
Steps(t, fn, pc) == Running(t, fn, pc) /\ th'[t] # th[t]

\* the frame under the top frame of thread t is a frame of fn
CalledFrom(t, fn) ==
  /\ Len(th[t].stack) > 1
  /\ th[t].stack[Len(th[t].stack) - 1].fn = fn

\* in a load_module call, the module being fetched is the target of the call
\* and not a dependency or a friend reached from it
TopLevelTarget(t) ==
  /\ th[t].call.op = "load_module"
  /\ Len(th[t].stack) = 3
  /\ th[t].stack[1].fn = "load_module_internal"
  /\ Top(th[t]).id = th[t].call.id

\* the statuses of the checks on stored bytes, before any upgrade
StoredBytesStatuses ==
  {"CODE_DESERIALIZATION_ERROR", "VERIFICATION_ERROR", "MISSING_DEPENDENCY", "LINKING_ERROR"}

\* C20: Error upgrade policy for bytes of the data store.  A module fetched
\* from the data store that fails deserialization, bytecode verification,
\* check_natives or the linking check gives an invariant violation; in a
\* load_module call a fetch that fails gives an invariant violation when the
\* module is a dependency or a friend, and the error of the data store
\* unchanged when the module is the target of the call; no load_module call
\* returns the plain status of one of these checks, and it returns the plain
\* fetch error exactly for a target that is not stored.
C20_ErrorUpgrade ==
  [][\A t \in Threads :
       LET f == Top(th[t])
       IN  /\ (Steps(t, "load_module_and_deps", "verify") /\ ~f.module.deserializes)
                 => th'[t].ret = Err("UNEXPECTED_DESERIALIZATION_ERROR")
           /\ (/\ Steps(t, "load_module_and_deps", "verify")
               /\ f.module.deserializes
               /\ ~(f.module.verifies /\ check_natives(f.module).ok))
                 => th'[t].ret = Err("UNEXPECTED_VERIFIER_ERROR")
           /\ (/\ Steps(t, "load_deps", "link")
               /\ CalledFrom(t, "load_module_and_deps")
               /\ ~f.module.links)
                 => th'[t].ret = Err("UNEXPECTED_VERIFIER_ERROR")
           /\ (/\ Steps(t, "load_module_and_deps", "fetch")
               /\ th[t].call.op = "load_module"
               /\ ~Store[f.id].present)
                 => IF TopLevelTarget(t)
                      THEN th'[t].ret = FetchError
                      ELSE ~th'[t].ret.ok /\ th'[t].ret.status \in UpgradedStatuses
           /\ (th[t].call.op = "load_module" /\ Len(th'[t].log) > Len(th[t].log))
                 => LET e == th'[t].log[Len(th'[t].log)]
                    IN  /\ ~Store[e.call.id].present => e.res = FetchError
                        /\ ~e.res.ok =>
                             /\ e.res.status \notin StoredBytesStatuses
                             /\ e.res = FetchError => ~Store[e.call.id].present]_vars

\* one load_module call has returned the upgraded fetch failure of a
\* dependency or friend that is not stored, another the plain fetch failure
\* of its target
C20_Witness ==
  \E t \in Threads : \E i, j \in DOMAIN th[t].log :
    LET e == th[t].log[i]
        g == th[t].log[j]
    IN  /\ e.call.op = "load_module" /\ g.call.op = "load_module"
        /\ Store[e.call.id].present
        /\ \E d \in Range(Store[e.call.id].deps) \cup Range(Store[e.call.id].friends) :
             ~Store[d].present
        /\ e.res = Err("UNEXPECTED_VERIFIER_ERROR")
        /\ ~Store[g.call.id].present
        /\ g.res = FetchError


Cyclic == Err("CYCLIC_MODULE_DEPENDENCY")

\* thread t is in a frame of the load path that has just been handed the
\* result of the load it called
AfterLoad(t) ==
  \/ Running(t, "load_deps", "dep_done")
  \/ Running(t, "load_module_and_deps", "deps_done")
  \/ Running(t, "load_closure", "deps_done")
  \/ Running(t, "load_closure", "friends_done")
  \/ Running(t, "load_friends", "friend_done")
  \/ Running(t, "load_module_internal", "loaded")

\* C21: a cycle found by the visited check is a plain CyclicModuleDependency.
\* The visited check on an id that is in visited returns
\* CyclicModuleDependency without a fetch, whatever the loading-failure flag
\* of the frame, and every frame of the load path that is handed that error
\* returns it as it is.
C21_PlainCycle ==
  [][\A t \in Threads :
       /\ (Steps(t, "load_module_and_deps", "start") /\ Top(th[t]).id \in th[t].visited)
             => /\ th'[t].ret = Cyclic
                /\ th'[t].fetches = th[t].fetches
                /\ Len(th'[t].stack) = Len(th[t].stack) - 1
       /\ (AfterLoad(t) /\ th'[t] # th[t] /\ th[t].ret = Cyclic)
             => /\ th'[t].ret = Cyclic
                /\ Len(th'[t].stack) = Len(th[t].stack) - 1]_vars

\* load_module on the cycle A -> B -> C -> A has returned the plain error
\* after three fetches: the revisited id was found two dependency loads deep,
\* both of them loads that must not fail, and was not fetched again
C21_Witness ==
  \E t \in Threads : \E i \in DOMAIN th[t].log :
    LET e == th[t].log[i]
    IN  /\ scenario.store = LongCycleStore
        /\ e.call.op = "load_module"
        /\ e.res = Cyclic
        /\ e.fetches = 3


\* the statuses only the cyclic relation checker gives
CheckerOnlyStatuses ==
  {"CYCLIC_MODULE_FRIENDSHIP", "INVALID_FRIEND_DECL_WITH_MODULES_IN_DEPENDENCIES"}

\* the cyclic relation check load_module_internal is about to run fails
CyclicCheckFails(t) ==
  /\ Steps(t, "load_module_internal", "cyclic")
  /\ ~verify_module_cyclic_relations(
         module_cache, module_cache.binaries[Top(th[t]).handle].module,
         th[t].bundle_verified, th[t].bundle_unverified).ok

\* C22: in load_module_internal the error of the cyclic relation check, which
\* runs when the target is in the module cache, is returned as an invariant
\* violation; no load_module call returns a status that only the cyclic
\* relation checker gives.
C22_CyclicCheckUpgraded ==
  [][\A t \in Threads :
       /\ CyclicCheckFails(t) =>
            /\ has_module(module_cache, Top(th[t]).id)
            /\ th'[t].ret = Err("UNEXPECTED_VERIFIER_ERROR")
       /\ (th[t].call.op = "load_module" /\ Len(th'[t].log) > Len(th[t].log))
            => LET e == th'[t].log[Len(th'[t].log)]
               IN  ~e.res.ok => e.res.status \notin CheckerOnlyStatuses]_vars

\* load_module(A), A naming its dependency B as a friend as well, has
\* returned an invariant violation and left A in the module cache
C22_Witness ==
  \E t \in Threads : \E i \in DOMAIN th[t].log :
    LET e == th[t].log[i]
    IN  /\ scenario.store = FriendDepStore
        /\ e.call = LoadModuleCall("A")
        /\ e.res = Err("UNEXPECTED_VERIFIER_ERROR")
        /\ "A" \in e.installed
        /\ has_module(module_cache, "A")


\* the module id is cached and the cache holds every struct and function it
\* declares
Published(id) ==
  /\ has_module(module_cache, id)
  /\ LET m == CachedModule(id)
     IN  /\ \A d \in DOMAIN m.struct_defs :
              \E i \in DOMAIN module_cache.structs :
                /\ module_cache.structs[i].module = id
                /\ module_cache.structs[i].name =
                     m.struct_handles[m.struct_defs[d].struct_handle].name
         /\ \A d \in DOMAIN m.function_defs :
              \E i \in DOMAIN module_cache.functions :
                /\ module_cache.functions[i].module = id
                /\ module_cache.functions[i].name =
                     m.function_handles[m.function_defs[d].function].name

\* the ids the calls of the threads, finished or not, have inserted
EverInstalled ==
  UNION {th[t].installed : t \in Threads}
    \cup UNION {UNION {th[t].log[i].installed : i \in DOMAIN th[t].log} : t \in Threads}

\* C23: no rollback across modules.  The module cache holds exactly the
\* modules whose insert succeeded, each with the structs and functions it
\* declares; in particular the modules a call inserted before it failed stay
\* cached, and a module whose own insert failed is not cached.
C23_NoRollback ==
  /\ DOMAIN module_cache.id_map = EverInstalled
  /\ \A t \in Threads : \A i \in DOMAIN th[t].log :
       ~th[t].log[i].res.ok => \A id \in th[t].log[i].installed : Published(id)
  /\ (InsertFailed /\ locks["module_cache"].w = NoThread)
       => insert_log.id \notin EverInstalled

\* load_module(A) has inserted the dependency B, with the struct and the
\* function B declares, and has then failed in the insert of A
C23_Witness ==
  \E t \in Threads : \E i \in DOMAIN th[t].log :
    LET e == th[t].log[i]
    IN  /\ scenario.store = BrokenStore
        /\ e.call = LoadModuleCall("A")
        /\ ~e.res.ok
        /\ e.installed = {"B"}
        /\ InsertFailed /\ insert_log.id = "A"
        /\ Published("B")
        /\ CachedModule("B").struct_defs # <<>>
        /\ CachedModule("B").function_defs # <<>>


\* the friends the filter of load_and_verify_friends keeps, in the state of
\* the filter
Kept(t, discovered) ==
  SelectSeq(discovered,
            LAMBDA mid : /\ ~has_module(module_cache, mid)
                         /\ mid \notin DOMAIN th[t].bundle_verified
                         /\ mid \notin th[t].bundle_unverified)

\* a friends traversal of thread t is in progress
InFriendsTraversal(t) == \E k \in DOMAIN th[t].stack : th[t].stack[k].fn = "load_friends"

\* the load_friends frame on top of the stack of t returns in this step
FriendsReturn(t) ==
  /\ th[t].stack # <<>>
  /\ Top(th[t]).fn = "load_friends"
  /\ Len(th'[t].stack) < Len(th[t].stack)

\* C24 as stated: every friend the filter kept has been loaded when the
\* traversal returns, and no id of bundle_unverified is fetched from the data
\* store while a friends traversal is in progress.
C24_ExactlyUnfiltered ==
  [][\A t \in Threads :
       /\ FriendsReturn(t) => Top(th[t]).i >= Len(Top(th[t]).list)
       /\ (Steps(t, "load_module_and_deps", "fetch") /\ InFriendsTraversal(t))
            => Top(th[t]).id \notin th[t].bundle_unverified]_vars

\* C24: friends traversal.  The filter keeps exactly the discovered friends
\* that, in the state of the filter, are not in the module cache, not in
\* bundle_verified and not in bundle_unverified; the traversal starts the
\* load of the kept friends one by one in the order of their ids, each with
\* its closure, returns the first error, and returns Ok only when every kept
\* friend was loaded; no id of bundle_unverified is the friend a traversal
\* loads.
C24_FriendsTraversal ==
  [][\A t \in Threads :
       LET f == Top(th[t])
       IN  /\ Steps(t, "load_friends", "filter") =>
                /\ Top(th'[t]).list = Kept(t, f.list)
                /\ Top(th'[t]).i = 1
           /\ (Steps(t, "load_friends", "loop") /\ f.i <= Len(f.list)) =>
                /\ Len(th'[t].stack) = Len(th[t].stack) + 1
                /\ Top(th'[t]).fn = "load_closure"
                /\ Top(th'[t]).id = f.list[f.i]
                /\ f.list[f.i] \notin th[t].bundle_unverified
           /\ (Steps(t, "load_friends", "friend_done") /\ th[t].ret.ok) =>
                /\ Len(th'[t].stack) = Len(th[t].stack)
                /\ Top(th'[t]).i = f.i + 1
           /\ FriendsReturn(t) =>
                IF th'[t].ret.ok THEN f.i = Len(f.list) + 1
                ELSE f.pc = "friend_done" /\ th'[t].ret = th[t].ret]_vars

\* in the publication of the bundle [C', A'], C' naming A and B as friends,
\* the traversal for C' has deferred A, loaded B, and is about to return Ok
C24_Witness ==
  \E t \in Threads :
    /\ Running(t, "load_friends", "loop")
    /\ th[t].call = VerifyBundleCall(<<FriendOfBothC, PlainA>>)
    /\ th[t].bundle_unverified = {"A"}
    /\ Top(th[t]).list = <<"B">>
    /\ Top(th[t]).i = 2
    /\ has_module(module_cache, "B")


\* the ids of the modules of a bundle at the positions in ks
IdsAt(list, ks) == {list[j].self_id : j \in ks \cap DOMAIN list}

\* a module of the bundle of thread t is being verified: the frame of the
\* publication call waits for verify_module_for_publication
VerifyingModule(T) ==
  /\ T.stack # <<>>
  /\ T.stack[1].fn = "verify_module_bundle_for_publication"
  /\ T.stack[1].pc = "module_done"

\* the split of the bundle while its module k is verified
SplitAt(T) ==
  LET list == T.stack[1].list
      k == T.stack[1].i
  IN  /\ DOMAIN T.bundle_verified = IdsAt(list, 1..(k - 1))
      /\ \A j \in 1..(k - 1) : T.bundle_verified[list[j].self_id] = list[j]
      /\ T.bundle_unverified = IdsAt(list, (k + 1)..Len(list))
      /\ DOMAIN T.bundle_verified \cap T.bundle_unverified = {}

\* C25: bundle verification order.  While module k of a bundle is verified,
\* bundle_verified holds exactly the modules before it, all of which passed,
\* and bundle_unverified exactly the ids of the modules after it; the two are
\* disjoint.  The modules are taken in bundle order; a module enters
\* bundle_verified in the step that is handed Ok by its own verification, and
\* the first error ends the call with that error.
C25_BundleOrder ==
  [][\A t \in Threads :
       LET T == th[t]
           f == Top(T)
       IN  /\ VerifyingModule(th'[t]) => SplitAt(th'[t])
           /\ (Steps(t, "verify_module_bundle_for_publication", "loop")
                  /\ f.i <= Len(f.list)) =>
                /\ Top(th'[t]).fn = "verify_module_for_publication"
                /\ Top(th'[t]).module = f.list[f.i]
                /\ th'[t].stack[1].i = f.i
           /\ th'[t].bundle_verified # T.bundle_verified =>
                \/ th'[t].bundle_verified = <<>>
                \/ /\ Steps(t, "verify_module_bundle_for_publication", "module_done")
                   /\ T.ret.ok
                   /\ th'[t].bundle_verified =
                        map_insert(T.bundle_verified, f.list[f.i].self_id, f.list[f.i])
                   /\ th'[t].stack[1].i = f.i + 1
           /\ (Steps(t, "verify_module_bundle_for_publication", "module_done")
                  /\ ~T.ret.ok) =>
                /\ th'[t].stack = <<>>
                /\ th'[t].log[Len(th'[t].log)].res = T.ret
           /\ (Steps(t, "verify_module_bundle_for_publication", "loop")
                  /\ th'[t].stack = <<>>) =>
                /\ f.i = Len(f.list) + 1
                /\ th'[t].log[Len(th'[t].log)].res = Ok(Unit)]_vars

\* the second module of the bundle [C', A', B'] is being verified: C' is in
\* bundle_verified, the id of B' in bundle_unverified
C25_Witness ==
  \E t \in Threads :
    /\ VerifyingModule(th[t])
    /\ th[t].call = VerifyBundleCall(<<PlainC, PlainA, PlainB>>)
    /\ th[t].stack[1].i = 2
    /\ DOMAIN th[t].bundle_verified = {"C"}
    /\ th[t].bundle_unverified = {"B"}
    /\ Len(th[t].stack) > 2


\* the module the lookups of a cyclic relation check find for an id: the one
\* in bundle_verified, else the cached one
LookedUp(T, id) ==
  IF id \in DOMAIN T.bundle_verified THEN T.bundle_verified[id] ELSE CachedModule(id)
Known(T, id) == id \in DOMAIN T.bundle_verified \/ has_module(module_cache, id)

\* what the claim says the two lookups give for every id
ClaimedDeps(T) ==
  [id \in ModuleIds |->
     IF Known(T, id) THEN Ok(LookedUp(T, id).deps) ELSE Err("MISSING_DEPENDENCY")]
ClaimedFriends(T) ==
  [id \in ModuleIds |->
     IF id \in T.bundle_unverified THEN Ok(<<>>)
     ELSE IF Known(T, id) THEN Ok(LookedUp(T, id).friends)
     ELSE Err("MISSING_DEPENDENCY")]

\* C26: cyclic-check lookups.  The cyclic relation check of a module under
\* publication returns what the cyclic checker gives when the dependency
\* lookup consults bundle_verified first and the module cache second, the
\* friend lookup gives the empty list for every id in bundle_unverified and
\* otherwise consults the same two, and both give MissingDependency for an id
\* in neither; the bundle [A', B'] in which A' names B as a friend and B'
\* depends on A, and the bundle in which B' names A as a friend, pass.
C26_CyclicLookups ==
  [][\A t \in Threads :
       /\ (Steps(t, "verify_module_for_publication", "friends_done") /\ th[t].ret.ok)
            => th'[t].ret = cyclic_dependencies_verify_module(
                               Top(th[t]).module, ClaimedDeps(th[t]), ClaimedFriends(th[t]))
       /\ Len(th'[t].log) > Len(th[t].log) =>
            LET e == th'[t].log[Len(th'[t].log)]
            IN  e.call \in {VerifyBundleCall(<<FriendlyA, BDependsOnA>>),
                            VerifyBundleCall(<<PlainA, BFriendsA>>)} => e.res = Ok(Unit)]_vars

\* the bundle [A', B'], A' naming B as a friend and B' depending on A, has
\* passed with B in neither bundle_verified nor the module cache while A' was
\* checked
C26_Witness ==
  \E t \in Threads : \E i \in DOMAIN th[t].log :
    /\ th[t].log[i].call = VerifyBundleCall(<<FriendlyA, BDependsOnA>>)
    /\ th[t].log[i].res = Ok(Unit)
    /\ ~has_module(module_cache, "B")
    /\ ~has_module(module_cache, "A")


\* the module declares a native function that is not in the registry, or a
\* native struct
BadNatives(m) ==
  \/ \E i \in DOMAIN m.function_defs :
       /\ m.function_defs[i].is_native
       /\ <<m.self_id, m.function_handles[m.function_defs[i].function].name>> \notin Natives
  \/ \E i \in DOMAIN m.struct_defs : m.struct_defs[i].is_native

NoBadNativesIn(cache) ==
  \A id \in DOMAIN cache.id_map : ~BadNatives(cache.binaries[cache.id_map[id]].module)

\* C27: a module that declares a native function the registry does not
\* resolve, or a native struct, is never in the module cache; the step of
\* load_and_verify_module and of verify_module_for_publication that checks it
\* returns an error without starting the load of a dependency (for a module
\* that passes the bytecode verifier, publication gives MissingDependency);
\* and a bundle that holds such a module is never accepted.
C27_NativesChecked ==
  [][/\ NoBadNativesIn(module_cache) /\ NoBadNativesIn(module_cache')
     /\ \A t \in Threads :
          LET f == Top(th[t])
          IN  /\ (Steps(t, "load_module_and_deps", "verify") /\ BadNatives(f.module)) =>
                   /\ Len(th'[t].stack) < Len(th[t].stack)
                   /\ ~th'[t].ret.ok
                   /\ module_cache' = module_cache
              /\ (Steps(t, "verify_module_for_publication", "start")
                     /\ BadNatives(f.module)) =>
                   /\ Len(th'[t].stack) < Len(th[t].stack)
                   /\ ~th'[t].ret.ok
                   /\ f.module.verifies => th'[t].ret = Err("MISSING_DEPENDENCY")
              /\ Len(th'[t].log) > Len(th[t].log) =>
                   LET e == th'[t].log[Len(th'[t].log)]
                   IN  (\E i \in DOMAIN e.call.modules : BadNatives(e.call.modules[i]))
                         => ~e.res.ok]_vars

\* load_module(B), B declaring a native function that is not registered and
\* depending on A, has failed after the one fetch of B, with A and B not
\* cached
C27_Witness ==
  \E t \in Threads : \E i \in DOMAIN th[t].log :
    LET e == th[t].log[i]
    IN  /\ scenario.store = NativeStore
        /\ e.call = LoadModuleCall("B")
        /\ e.res = Err("UNEXPECTED_VERIFIER_ERROR")
        /\ e.fetches = 1
        /\ ~has_module(module_cache, "A")
        /\ ~has_module(module_cache, "B")


\* the runtime type a type tag stands for, once its structs are in the cache
RECURSIVE TypeOfTag(_, _)
TypeOfTag(cache, tag) ==
  CASE tag.k = "Vector" -> [k |-> "Vector", t |-> TypeOfTag(cache, tag.t)]
    [] tag.k = "Struct" ->
         LET idx == resolve_struct_by_name(cache, tag.name, tag.module).val
         IN  IF cache.structs[idx].type_parameters = <<>> /\ tag.type_params = <<>>
               THEN TyStruct(idx)
               ELSE TyStructInst(idx, [i \in 1..Len(tag.type_params) |->
                                         TypeOfTag(cache, tag.type_params[i])])
    [] OTHER -> [k |-> tag.k]

\* the step returns from the load_type of a struct tag
StructTagReturns(t) ==
  /\ th[t].stack # <<>>
  /\ Top(th[t]).fn = "load_type"
  /\ Top(th[t]).tag.k = "Struct"
  /\ th'[t] # th[t]
  /\ Len(th'[t].stack) < Len(th[t].stack)

\* C28: load_type of a struct tag resolves the struct only after load_module
\* of the declaring module has returned with the module in the cache; a
\* successful call returns Struct(index) exactly when the struct declares no
\* type parameter and the tag carries none, and otherwise StructInstantiation
\* of the index and the loaded tag parameters, as many as the struct declares
\* and each with the abilities its constraint asks for; with all tag
\* parameters loaded and a count that differs from the declared one the call
\* fails with NumberOfTypeArgumentsMismatch.
C28_LoadTypeStruct ==
  [][\A t \in Threads :
       LET f == Top(th[t])
           r == th'[t].ret
       IN  /\ (Steps(t, "load_type", "module_loaded") /\ th[t].ret.ok) =>
                has_module(module_cache, f.tag.module)
           /\ (StructTagReturns(t) /\ r.ok) =>
                LET idx == resolve_struct_by_name(module_cache, f.tag.name, f.tag.module)
                    st == module_cache.structs[idx.val]
                IN  /\ has_module(module_cache, f.tag.module)
                    /\ idx.ok
                    /\ r.val = TypeOfTag(module_cache, f.tag)
                    /\ r.val.idx = idx.val
                    /\ r.val.k = "Struct" <=>
                         (st.type_parameters = <<>> /\ f.tag.type_params = <<>>)
                    /\ r.val.k # "Struct" =>
                         /\ r.val.k = "StructInst"
                         /\ Len(r.val.tys) = Len(st.type_parameters)
                         /\ \A i \in DOMAIN r.val.tys :
                              st.type_parameters[i].constraints
                                \subseteq abilities(module_cache, r.val.tys[i]).val
           /\ (StructTagReturns(t) /\ f.pc = "params" /\ f.i > Len(f.tag.type_params)
                  /\ Len(f.tag.type_params) # Len(f.struct_type.type_parameters)) =>
                r = Err("NUMBER_OF_TYPE_ARGUMENTS_MISMATCH")]_vars

\* load_function with the type argument Box<Coin> has returned the
\* instantiation of Box with Struct(Coin), and with Coin<u64> has failed with
\* NumberOfTypeArgumentsMismatch
C28_Witness ==
  \E t \in Threads : \E i, j \in DOMAIN th[t].log :
    LET a == th[t].log[i]
        b == th[t].log[j]
        coin == resolve_struct_by_name(module_cache, "Coin", "C").val
        box == resolve_struct_by_name(module_cache, "Box", "C").val
    IN  /\ a.call = LoadFunctionCall("A", "f", <<TagStruct("C", "Box",
                                                   <<TagStruct("C", "Coin", <<>>)>>)>>)
        /\ a.res.ok
        /\ a.res.val.type_arguments = <<TyStructInst(box, <<TyStruct(coin)>>)>>
        /\ b.call = LoadFunctionCall("A", "f", <<TagStruct("C", "Coin", <<TagU64>>)>>)
        /\ b.res = Err("NUMBER_OF_TYPE_ARGUMENTS_MISMATCH")


\* the type has ability a by the table of abilities
RECURSIVE HasAbility(_, _, _)
HasAbility(cache, ty, a) ==
  CASE ty.k \in PrimitiveKinds -> a \in PRIMITIVES
    [] ty.k \in {"Reference", "MutableReference"} -> a \in REFERENCES
    [] ty.k = "Signer" -> a \in SIGNER
    [] ty.k = "Vector" -> a \in VECTOR /\ HasAbility(cache, ty.t, a)
    [] ty.k = "Struct" -> a \in cache.structs[ty.idx].abilities
    [] ty.k = "StructInst" ->
         /\ a \in cache.structs[ty.idx].abilities
         /\ \A i \in DOMAIN ty.tys :
              \/ cache.structs[ty.idx].type_parameters[i].is_phantom
              \/ HasAbility(cache, ty.tys[i], a)
    [] OTHER -> FALSE

\* a TyParam occurs in the type; under_references tells whether the inside of
\* a reference is looked at
RECURSIVE HasTyParam(_, _)
HasTyParam(ty, under_references) ==
  CASE ty.k = "TyParam" -> TRUE
    [] ty.k = "Vector" -> HasTyParam(ty.t, under_references)
    [] ty.k \in {"Reference", "MutableReference"} ->
         under_references /\ HasTyParam(ty.t, under_references)
    [] ty.k = "StructInst" ->
         \E i \in DOMAIN ty.tys : HasTyParam(ty.tys[i], under_references)
    [] OTHER -> FALSE

\* the result of a call of abilities is Unreachable when the type has a
\* TyParam, and otherwise the set of the abilities the table gives
AbilitiesByTable(under_references) ==
  \A t \in Threads :
    Steps(t, "abilities", "start") =>
      LET ty == Top(th[t]).ty
      IN  th'[t].ret =
            IF HasTyParam(ty, under_references) THEN Err("UNREACHABLE")
            ELSE Ok({a \in AllAbilities : HasAbility(module_cache, ty, a)})

\* C29 as stated: a TyParam anywhere inside the type, also inside a reference,
\* makes the result Unreachable, and every other type has the abilities of
\* the table
C29_TyParamAnywhere == [][AbilitiesByTable(TRUE)]_vars

\* C29: abilities(ty) is Unreachable when a TyParam occurs in ty outside every
\* reference; otherwise primitives give PRIMITIVES, references (whatever they
\* point to) REFERENCES, Signer SIGNER, Struct(i) the declared abilities of
\* struct i, and Vector(t) and StructInstantiation(i, args) the declared set
\* restricted to the abilities that every non-phantom argument has.
C29_AbilitiesTable == [][AbilitiesByTable(FALSE)]_vars

\* abilities of &T has returned REFERENCES and abilities of vector<T> the
\* Unreachable error
C29_Witness ==
  \E t \in Threads :
    /\ Len(th[t].log) = 2
    /\ th[t].log[1].call = AbilitiesCall(TyReference(TyTyParam(0)))
    /\ th[t].log[1].res = Ok(REFERENCES)
    /\ th[t].log[2].call = AbilitiesCall(TyVector(TyTyParam(0)))
    /\ th[t].log[2].res = Err("UNREACHABLE")


\* the step ends a load_script of thread t with an error, short of the
\* insertion into the script cache
ScriptFailsBeforeInsert(t) ==
  /\ Len(th'[t].log) > Len(th[t].log)
  /\ th[t].call.op = "load_script"
  /\ ~th'[t].ret.ok
  /\ th[t].script_stage \in {"miss", "verified", "linked"}

\* C30: the script cache changes only in the step of load_script that follows
\* a successful Script::new, and then by one entry under the hash of the
\* script; a load_script that fails in deserialization, script verification,
\* dependency loading, dependency verification or Script::new ends with the
\* script cache as it was and with no entry under its hash.
C30_ScriptInsertAtomic ==
  [][/\ scripts' # scripts =>
          \E t \in Threads :
            /\ Running(t, "load_script", "new")
            /\ th[t].script_stage = "linked"
            /\ th'[t].script_stage = "inserted"
            /\ Len(th'[t].stack) = Len(th[t].stack)
            /\ Sha3_256(Top(th[t]).script) \notin DOMAIN scripts.id_map
            /\ DOMAIN scripts'.id_map =
                 DOMAIN scripts.id_map \cup {Sha3_256(Top(th[t]).script)}
            /\ Len(scripts'.binaries) = Len(scripts.binaries) + 1
     /\ \A t \in Threads :
          ScriptFailsBeforeInsert(t) =>
            /\ scripts' = scripts
            /\ Sha3_256(th[t].call.script) \notin DOMAIN scripts'.id_map
            /\ th[t].call.script \in FailingScripts
            /\ th'[t].log[Len(th'[t].log)].script_stage =
                 CASE th[t].call.script \in {UndeserializableScript, UnverifiableScript}
                        -> "miss"
                   [] th[t].call.script \in {DependsOnAScript, UnlinkedScript}
                        -> "verified"
                   [] OTHER -> "linked"]_vars

\* after a load_script that cached its script, the load_script of a script
\* whose function handle does not resolve has failed in Script::new and the
\* script cache still holds the one script
C30_Witness ==
  \E t \in Threads :
    /\ Len(th[t].log) = 2
    /\ th[t].log[1].call = LoadScriptCall(GoodScript, <<>>)
    /\ th[t].log[1].script_stage = "inserted"
    /\ th[t].log[2].call = LoadScriptCall(BadRefScript, <<>>)
    /\ ~th[t].log[2].res.ok
    /\ th[t].log[2].script_stage = "linked"
    /\ DOMAIN scripts.id_map = {Sha3_256(GoodScript)}
    /\ Len(scripts.binaries) = 1


\* the names module m declares structs and functions under
DeclaredStructs(m) ==
  {m.struct_handles[m.struct_defs[i].struct_handle].name : i \in DOMAIN m.struct_defs}
DeclaredFunctions(m) ==
  {m.function_handles[m.function_defs[i].function].name : i \in DOMAIN m.function_defs}

\* the indices of the global vector whose entry is of module mid and name n
IndicesOf(vector, mid, n) ==
  {i \in DOMAIN vector : vector[i].module = mid /\ vector[i].name = n}

\* the names looked up: every name in the global vectors and two that no
\* module declares
ProbeNames ==
  {module_cache.structs[i].name : i \in DOMAIN module_cache.structs}
    \cup {module_cache.functions[i].name : i \in DOMAIN module_cache.functions}
    \cup {"Nope", "nofn"}

\* C31: for every cached module M, struct_map and function_map have the
\* names M declares as their keys, and the entry of the global struct
\* (function) vector at the mapped index is of module M and of that name;
\* resolve_struct_by_name and resolve_function_by_name return that index when
\* the module is cached and declares the name, and fail with
\* TypeResolutionFailure / FunctionResolutionFailure otherwise.
C31_NameMaps ==
  /\ \A mid \in DOMAIN module_cache.id_map :
       LET M == module_cache.binaries[module_cache.id_map[mid]]
       IN  /\ M.id = mid
           /\ DOMAIN M.struct_map = DeclaredStructs(M.module)
           /\ DOMAIN M.function_map = DeclaredFunctions(M.module)
           /\ \A n \in DOMAIN M.struct_map :
                IndicesOf(module_cache.structs, mid, n) = {M.struct_map[n]}
           /\ \A n \in DOMAIN M.function_map :
                IndicesOf(module_cache.functions, mid, n) = {M.function_map[n]}
  /\ \A mid \in ModuleIds : \A n \in ProbeNames :
       LET cached == has_module(module_cache, mid)
           m == module_cache.binaries[module_cache.id_map[mid]].module
       IN  /\ resolve_struct_by_name(module_cache, n, mid) =
                IF cached /\ n \in DeclaredStructs(m)
                  THEN Ok(CHOOSE i \in IndicesOf(module_cache.structs, mid, n) : TRUE)
                  ELSE Err("TYPE_RESOLUTION_FAILURE")
           /\ resolve_function_by_name(module_cache, n, mid) =
                IF cached /\ n \in DeclaredFunctions(m)
                  THEN Ok(CHOOSE i \in IndicesOf(module_cache.functions, mid, n) : TRUE)
                  ELSE Err("FUNCTION_RESOLUTION_FAILURE")

\* A, B and C of the chain are cached: A::Inner and B::g resolve, A::Pair and
\* B::f do not
C31_Witness ==
  /\ scenario.store = ChainStore
  /\ DOMAIN module_cache.id_map = {"A", "B", "C"}
  /\ resolve_struct_by_name(module_cache, "Inner", "A").ok
  /\ resolve_struct_by_name(module_cache, "Pair", "A") = Err("TYPE_RESOLUTION_FAILURE")
  /\ resolve_function_by_name(module_cache, "g", "B").ok
  /\ resolve_function_by_name(module_cache, "f", "B") = Err("FUNCTION_RESOLUTION_FAILURE")


\* every tag and every layout the type cache holds is still held, under the
\* same key and with the same value, after the step
TypeCacheKept ==
  \A e \in type_cache :
    \E n \in type_cache' :
      /\ n.gidx = e.gidx /\ n.ty_args = e.ty_args
      /\ e.struct_tag # None => n.struct_tag = e.struct_tag
      /\ e.struct_layout # None => n.struct_layout = e.struct_layout

\* thread t is about to store what it computed for a key
StoresTag(t) == Running(t, "struct_gidx_to_type_tag", "store")
StoresLayout(t) ==
  /\ Running(t, "struct_gidx_to_type_layout", "next")
  /\ Top(th[t]).i > Len(Top(th[t]).list)

\* C32: the type cache has one StructInfo per key; a tag or a layout it holds
\* is never removed and never replaced by a different value; a thread that
\* stores a tag or a layout for a key that already has one stores an equal
\* value.
C32_WriteOnce ==
  [][/\ TypeCacheKept
     /\ \A a, b \in type_cache' : (a.gidx = b.gidx /\ a.ty_args = b.ty_args) => a = b
     /\ \A t \in Threads :
          LET f == Top(th[t])
          IN  /\ (StoresTag(t) /\ th'[t] # th[t]) =>
                   \A e \in cached_tag(type_cache, f.handle, f.ty_args) :
                     e.struct_tag = f.tag
              /\ (StoresLayout(t) /\ th'[t] # th[t]) =>
                   \A e \in cached_layout(type_cache, f.handle, f.ty_args) :
                     e.struct_layout = [fields |-> f.acc]]_vars

\* both threads computed the tag of Box<Coin>: one has stored it and
\* returned, the other is about to store its own over it
C32_Witness ==
  \E t, u \in Threads :
    /\ StoresTag(t)
    /\ Top(th[t]).handle = 3 /\ Top(th[t]).ty_args = <<TyStruct(1)>>
    /\ cached_tag(type_cache, 3, <<TyStruct(1)>>) # {}
    /\ Len(th[u].log) = 1
    /\ th[u].log[1].call = TypeToTypeTagCall(TyStructInst(3, <<TyStruct(1)>>))
    /\ th[u].log[1].res.ok


\* the step is a BinaryCache::insert of thread t
BinaryInserts(t) == Steps(t, "binary_cache_insert", "start")

\* every value is where it was, and every key other than k maps where it did
OthersKept(k) ==
  /\ SubSeq(scripts'.binaries, 1, Len(scripts.binaries)) = scripts.binaries
  /\ \A h \in DOMAIN scripts.id_map \ {k} :
       BinaryCache_get(scripts', h) = BinaryCache_get(scripts, h)

\* C33 as stated: an insert of an absent key appends the value and get
\* returns it, no position changes, and an insert of a present key changes
\* nothing
C33_DuplicateNoOp ==
  [][\A t \in Threads :
       BinaryInserts(t) =>
         LET f == Top(th[t])
         IN  IF f.name \in DOMAIN scripts.id_map
               THEN scripts' = scripts
               ELSE /\ OthersKept(f.name)
                    /\ BinaryCache_get(scripts', f.name) = [some |-> TRUE, val |-> f.script]
                    /\ Len(scripts'.binaries) = Len(scripts.binaries) + 1]_vars

\* C33: every BinaryCache::insert, of an absent or of a present key, appends
\* the value at the end of the binaries vector and maps the key to that
\* position; get of the key then returns the value just inserted, the
\* position of every earlier value is unchanged and get of every other key
\* returns what it did.
C33_AppendOnly ==
  [][\A t \in Threads :
       BinaryInserts(t) =>
         LET f == Top(th[t])
         IN  /\ OthersKept(f.name)
             /\ Len(scripts'.binaries) = Len(scripts.binaries) + 1
             /\ scripts'.binaries[Len(scripts'.binaries)] = f.script
             /\ scripts'.id_map[f.name] = Len(scripts'.binaries)
             /\ DOMAIN scripts'.id_map = DOMAIN scripts.id_map \cup {f.name}
             /\ BinaryCache_get(scripts', f.name) = [some |-> TRUE, val |-> f.script]]_vars

\* two values were inserted under one key: both are in the vector, in the
\* order of the calls, and get returns the second
C33_Witness ==
  /\ scenario \in BinaryCacheScenarios
  /\ scripts.binaries = <<PlainScript("h1"), TwoParameters("h2")>>
  /\ DOMAIN scripts.id_map = {"h1"}
  /\ BinaryCache_get(scripts, "h1") = [some |-> TRUE, val |-> TwoParameters("h2")]


\* C34: every call a thread has started (load_module, load_function,
\* load_script, get_type_layout with its load_type, and
\* verify_module_bundle_for_publication), on every data store of the
\* scenarios, the cyclic ones included, eventually returns: the stack of the
\* thread empties.
C34_Termination ==
  \A t \in Threads : (th[t].stack # <<>>) ~> (th[t].stack = <<>>)

\* load_module(A) on the store with the cycle A -> B -> C -> A has returned
C34_Witness ==
  \E t \in Threads : \E i \in DOMAIN th[t].log :
    /\ scenario.store = LongCycleStore
    /\ th[t].log[i].call = LoadModuleCall("A")
    /\ th[t].stack = <<>>


\* thread t is inside a call and cannot take its next step: the lock that
\* step takes is not granted
Blocked(t) ==
  /\ th[t].stack # <<>>
  /\ ~ENABLED (TypeCacheNext /\ th'[t] # th[t])

\* the locks thread t holds from one step to the next: the script-cache
\* write lock from the bottom frame of a load_script, and above it the
\* module-cache write lock during ModuleCache::insert or the module-cache
\* read lock during the cyclic relation check
HoldsInOrder(t) ==
  LET T == th[t]
      held == LocksHeld(t)
      mc == locks["module_cache"]
  IN  /\ held # {} => T.stack # <<>>
      /\ "type_cache" \notin held
      /\ "scripts" \in held =>
            /\ locks["scripts"].w = t
            /\ T.stack[1].fn = "load_script"
      /\ "module_cache" \in held =>
            \/ /\ mc.w = t
               /\ mc.r = {}
               /\ Top(T).fn = "load_module_and_deps"
               /\ Top(T).pc \in {"insert_fields", "insert_new"}
            \/ /\ mc.w = NoThread
               /\ t \in mc.r
               /\ Top(T).fn = "load_module_internal"
               /\ Top(T).pc = "cyclic"

\* C35: no reachable state has every running thread blocked on a lock: a
\* blocked thread holds at most the script-cache write lock and waits for a
\* lock held by another thread that can take a step.  In particular a
\* thread that holds a module-cache lock (read or write) or a type-cache
\* lock is never blocked, so it never asks for the module-cache write lock
\* under its own read lock, and the locks a thread holds together are the
\* script-cache write lock below a module-cache lock, never the reverse.
C35_DeadlockFree ==
  \A t \in Threads :
    /\ HoldsInOrder(t)
    /\ Blocked(t) =>
          /\ LocksHeld(t) \subseteq {"scripts"}
          /\ \E u \in Threads \ {t} : LocksHeld(u) # {} /\ ~Blocked(u)

\* one thread waits for the script-cache write lock while the other, inside
\* load_script, holds it together with the module-cache write lock
C35_Witness ==
  \E t, u \in Threads :
    /\ Blocked(t)
    /\ Top(th[t]).fn = "load_script"
    /\ LocksHeld(t) = {}
    /\ LocksHeld(u) = {"scripts", "module_cache"}
    /\ locks["module_cache"].w = u


\* the struct definitions of the first n cached modules, in the order the
\* modules were inserted and, within a module, in declaration order
RECURSIVE StructBlocks(_, _)
StructBlocks(cache, n) ==
  IF n = 0 THEN <<>>
  ELSE LET m == cache.binaries[n].module
       IN  StructBlocks(cache, n - 1)
             \o [i \in 1..Len(m.struct_defs) |->
                   [module |-> m.self_id, def |-> i,
                    name |-> m.struct_handles[m.struct_defs[i].struct_handle].name]]

\* ... and their function definitions
RECURSIVE FunctionBlocks(_, _)
FunctionBlocks(cache, n) ==
  IF n = 0 THEN <<>>
  ELSE LET m == cache.binaries[n].module
       IN  FunctionBlocks(cache, n - 1)
             \o [i \in 1..Len(m.function_defs) |->
                   [module |-> m.self_id, def |-> i,
                    name |-> m.function_handles[m.function_defs[i].function].name]]

\* C36: no orphan entries.  Whenever no thread holds the module-cache write
\* lock, the global struct vector is the concatenation, in insertion order of
\* the cached modules, of one block per module with its struct definitions in
\* declaration order, and the function vector likewise; every cached module
\* is reachable under its id, so no entry belongs to an uncached module.
C36_NoOrphans ==
  locks["module_cache"].w = NoThread =>
    /\ [i \in DOMAIN module_cache.structs |->
          [module |-> module_cache.structs[i].module,
           def |-> module_cache.structs[i].struct_def,
           name |-> module_cache.structs[i].name]]
         = StructBlocks(module_cache, Len(module_cache.binaries))
    /\ [i \in DOMAIN module_cache.functions |->
          [module |-> module_cache.functions[i].module,
           def |-> module_cache.functions[i].index,
           name |-> module_cache.functions[i].name]]
         = FunctionBlocks(module_cache, Len(module_cache.binaries))
    /\ \A n \in DOMAIN module_cache.binaries :
          LET id == module_cache.binaries[n].module.self_id
          IN  has_module(module_cache, id) /\ module_at(module_cache, id) = n

\* an insert of a module with structs and functions has failed and released
\* the lock, in a cache that holds a module with structs and functions
C36_Witness ==
  /\ locks["module_cache"].w = NoThread
  /\ InsertFailed
  /\ insert_log.module.struct_defs # <<>>
  /\ insert_log.module.function_defs # <<>>
  /\ module_cache.binaries # <<>>
  /\ module_cache.structs # <<>>
  /\ module_cache.functions # <<>>


\* module x is stored and passes every check of a load on its own
Sound(x) ==
  /\ Store[x].present
  /\ Store[x].deserializes /\ Store[x].verifies /\ check_natives(Store[x]).ok
  /\ Store[x].links /\ Resolves(Store[x])

\* the dependency graph of the data store has no cycle
AcyclicStore == \A x \in ModuleIds : ~OnCycle(x)

\* ... and every module that load_module(id) reaches through dependencies
\* and friends is sound
RelOf(id) ==
  Reachable({id},
            [x \in ModuleIds |->
               IF Store[x].present
                 THEN Range(Store[x].deps) \cup Range(Store[x].friends) ELSE {}])
            \cup {id}
SoundClosure(id) == \A x \in RelOf(id) : Sound(x)
NoFriends(id) == \A x \in RelOf(id) : Store[x].friends = <<>>

\* the ids whose load_and_verify_module_and_dependencies is on the stack of
\* thread t
OnRecursionStack(t) ==
  {th[t].stack[i].id :
     i \in {j \in DOMAIN th[t].stack : th[t].stack[j].fn = "load_module_and_deps"}}

\* C37: no spurious cycle.  On a data store whose dependency graph is
\* acyclic no load_module returns CyclicModuleDependency, shared dependencies
\* (the diamond A -> B, A -> C, B -> D, C -> D) included, and it returns Ok
\* when the modules it reaches are sound and name no friends; and during a
\* load_module whose closure is sound every id in visited is on the
\* recursion stack or in the module cache.
C37_NoSpuriousCycle ==
  \A t \in Threads :
    /\ \A i \in DOMAIN th[t].log :
         (th[t].log[i].call.op = "load_module" /\ AcyclicStore) =>
           /\ th[t].log[i].res # Err("CYCLIC_MODULE_DEPENDENCY")
           /\ (SoundClosure(th[t].log[i].call.id) /\ NoFriends(th[t].log[i].call.id))
                => th[t].log[i].res.ok
    /\ ( /\ th[t].stack # <<>>
         /\ th[t].call.op = "load_module"
         /\ AcyclicStore
         /\ SoundClosure(th[t].call.id)
         /\ OnRecursionStack(t) # {} ) =>
           \A id \in th[t].visited :
             id \in OnRecursionStack(t) \/ has_module(module_cache, id)

\* load_module(A) on the diamond is loading C after B and D: D is in
\* visited, off the recursion stack and cached
C37_Witness ==
  \E t \in Threads :
    /\ scenario.store = DiamondStore
    /\ th[t].stack # <<>>
    /\ th[t].call = LoadModuleCall("A")
    /\ th[t].visited = {"A", "B", "C", "D"}
    /\ OnRecursionStack(t) = {"A", "C"}
    /\ th[t].fetches = 4


\* thread t is the only thread that has made a call
Alone(t) == \A u \in Threads \ {t} : th[u].stack = <<>> /\ th[u].log = <<>>

\* a load_module of thread t that returned an error
FailedLoad(t, i) ==
  /\ i \in DOMAIN th[t].log
  /\ th[t].log[i].call.op = "load_module"
  /\ ~th[t].log[i].res.ok

\* C38 as stated: after a single-threaded load_module(id) has returned an
\* error, id is not in the module cache, and the same call made next returns
\* an error again.
C38_TargetUnpublished ==
  \A t \in Threads : \A i \in DOMAIN th[t].log :
    (Alone(t) /\ FailedLoad(t, i)) =>
      /\ (i = Len(th[t].log) /\ th[t].stack = <<>>)
           => ~has_module(module_cache, th[t].log[i].call.id)
      /\ (i + 1 \in DOMAIN th[t].log /\ th[t].log[i + 1].call = th[t].log[i].call)
           => ~th[t].log[i + 1].res.ok

\* what a failed single-threaded load_module(id) leaves: id is cached exactly
\* if the call itself inserted it, and the same call made next returns the
\* cached handle without a fetch in that case and an error otherwise
FailedLoadLeaves ==
  \A t \in Threads : \A i \in DOMAIN th[t].log :
    (Alone(t) /\ FailedLoad(t, i)) =>
      LET e == th[t].log[i]
          id == e.call.id
      IN  /\ (i = Len(th[t].log) /\ th[t].stack = <<>>)
               => (has_module(module_cache, id) <=> id \in e.installed)
          /\ (i + 1 \in DOMAIN th[t].log /\ th[t].log[i + 1].call = e.call) =>
               LET n == th[t].log[i + 1]
               IN  IF id \in e.installed
                     THEN n.res = Ok(module_at(module_cache, id)) /\ n.fetches = 0
                     ELSE ~n.res.ok

\* C38: a failed load leaves the target unpublished unless the failure came
\* after its insertion.  In a single-threaded load_module(id), when the
\* closure of id fails before the friends are loaded (fetching, verification,
\* dependency loading, linking, insertion) id is not cached; when the
\* loading of the friends fails, or the cyclic relation check, id is cached.
\* A repeated load_module(id) returns an error again in the first case and
\* the cached handle in the second.
C38_FailedLoad ==
  [][ /\ FailedLoadLeaves'
      /\ \A t \in Threads :
           (Alone(t) /\ th[t].stack # <<>> /\ th[t].call.op = "load_module"
              /\ th'[t] # th[t] /\ ~th[t].precached) =>
             LET id == th[t].call.id
                 target == Len(th[t].stack) = 2 /\ Top(th[t]).fn = "load_closure"
             IN  /\ (target /\ Top(th[t]).pc = "deps_done" /\ ~th[t].ret.ok)
                      => ~has_module(module_cache', id)
                 /\ (target /\ Top(th[t]).pc = "friends_done" /\ ~th[t].ret.ok)
                      => has_module(module_cache', id)
                 /\ (Len(th[t].stack) = 1 /\ Top(th[t]).pc = "cyclic")
                      => has_module(module_cache', id) ]_vars

\* load_module(A) has failed in the cyclic relation check and left A cached,
\* and the load_module(A) made next has returned the cached handle
C38_Witness ==
  \E t \in Threads :
    /\ Alone(t)
    /\ Len(th[t].log) = 2
    /\ FailedLoad(t, 1)
    /\ th[t].log[1].call = LoadModuleCall("A")
    /\ th[t].log[1].res = Err("UNEXPECTED_VERIFIER_ERROR")
    /\ "A" \in th[t].log[1].installed
    /\ th[t].log[2].call = LoadModuleCall("A")
    /\ th[t].log[2].res = Ok(module_at(module_cache, "A"))
    /\ th[t].log[2].fetches = 0


\* the status of a result
StatusOf(res) == IF res.ok THEN "ok" ELSE res.status

\* the status type_to_type_layout gives for ty when it finds no struct layout
\* in the type cache: the depth check runs at every node of the layout
EmptyCacheStatus(ty) ==
  IF LayoutDepth(ty) > VALUE_DEPTH_MAX THEN "VM_MAX_VALUE_DEPTH_REACHED" ELSE "ok"

\* a call of type_to_type_layout that met an empty type cache, no other
\* thread running, returns that status
EmptyCacheReference ==
  \A t \in Threads : \A i \in DOMAIN th[t].log :
    LET e == th[t].log[i]
    IN  (/\ Alone(t)
         /\ e.call.op = "get_type_layout" /\ e.layout.ran
         /\ e.layout.pre = {})
        => StatusOf(e.res) = EmptyCacheStatus(e.layout.ty)

\* C39: cache transparency of layouts.  A call of type_to_type_layout that
\* meets a type cache warmed by earlier calls returns what it returns against
\* an empty type cache: the same status, and the same result as every other
\* finished call on the same type.
C39_CacheTransparent ==
  \A t \in Threads : \A i \in DOMAIN th[t].log :
    LET e == th[t].log[i]
    IN  (/\ Alone(t)
         /\ e.call.op = "get_type_layout" /\ e.layout.ran
         /\ e.layout.pre # {})
        => /\ StatusOf(e.res) = EmptyCacheStatus(e.layout.ty)
           /\ \A j \in DOMAIN th[t].log :
                (th[t].log[j].call = e.call /\ th[t].log[j].layout.ran)
                  => th[t].log[j].res = e.res

\* after the layout of C::Coin was cached by a first call, a second call on
\* vector<...<C::Coin>> has returned Ok although it returns
\* VM_MAX_VALUE_DEPTH_REACHED against an empty type cache
C39_WarmCacheDiffers ==
  \E t \in Threads :
    /\ Alone(t)
    /\ Len(th[t].log) = 2
    /\ th[t].log[1].call = GetTypeLayoutCall(TagStruct("C", "Coin", <<>>))
    /\ th[t].log[1].res.ok
    /\ th[t].log[2].call =
         GetTypeLayoutCall(TagVectors(VALUE_DEPTH_MAX - 1, TagStruct("C", "Coin", <<>>)))
    /\ th[t].log[2].layout.pre # {}
    /\ th[t].log[2].res.ok
    /\ EmptyCacheStatus(th[t].log[2].layout.ty) = "VM_MAX_VALUE_DEPTH_REACHED"

====
